---- MODULE Spec2Model ----
(***************************************************************************)
(* A model of the schedule-data access layer of apsbss:                    *)
(*   core.py              iso2dt, miner, trim, User, ProposalBase,         *)
(*                        ScheduleInterfaceBase                            *)
(*   bss_is.py            IS_BeamtimeRequest, IS_SchedulingServer (restful *)
(*                        adapter)                                         *)
(*   bss_dm.py            ApsDmScheduleInterface (legacy adapter)          *)
(*   server_interface.py  Server (the facade)                              *)
(*   servers.py           Server.esafs, Server.get_proposal                *)
(*   apsbss.py            trim                                             *)
(*                                                                         *)
(* Conventions.  Python's None is the string "None".  A run name such as   *)
(* "2020-1" is a TLA+ string; the lexical order of run names that Python's *)
(* sorted() uses is given by RunRank, and int(run.split("-")[0]) by        *)
(* RunYear.  Instants are integers.  An exception is a record              *)
(* [type, msg]; "none" as the type means the call returned.                *)
(*                                                                         *)
(* Specifications.                                                         *)
(*   Spec        the facade on any run catalog, built with creds_file=None *)
(*   SpecCtor    the facade built from every constructor input             *)
(*   SpecMatch   Server.current_esafs_and_proposals                        *)
(*   SpecWebget  IS_SchedulingServer.webget on one instance                *)
(*   SpecIS      IS_SchedulingServer.proposals on one instance             *)
(*   SpecCore    miner and trim                                            *)
(*   SpecDM      ApsDmScheduleInterface on one instance                    *)
(*   SpecRecurring  Server.current_esafs_and_proposals, IDs that recur     *)
(*   SpecRecord  one ProposalBase or IS_BeamtimeRequest                    *)
(*   SpecSector  Server.esafs on every sector; Server.get_proposal of      *)
(*               servers.py                                                *)
(*   SpecPair    two adapters of one class side by side                    *)
(*   SpecStored  IS_SchedulingServer.proposals and the times of the        *)
(*               records it stores                                         *)
(*   SpecRequest IS_SchedulingServer.get_request                           *)
(***************************************************************************)
EXTENDS Integers, Sequences, FiniteSets, Bags, TLC

VARIABLES
    now,        \* datetime.datetime.now().astimezone(), an instant
    listRuns,   \* the backend's _runs: the run catalog, in upstream order
    ctor,       \* what Server.__init__ met: [creds_file, construct]
    bss_api,    \* Server.bss_api: "IS" or "DM"
    ss,         \* the fields of one IS_SchedulingServer instance
    last        \* the call being served: what was asked, what comes back

vars == <<now, listRuns, ctor, bss_api, ss, last>>

None == "None"

\* {}: the dictionary with no keys
EmptyDict == [k \in {} |-> None]

\* What a call comes to: it returns a value or raises an exception.
Return(v) == [exc |-> "none", msg |-> <<>>, value |-> v]
Raise(type, msg) == [exc |-> type, msg |-> msg, value |-> None]

-----------------------------------------------------------------------------
(* Bounds of the model.                                                    *)

MaxRuns == 3        \* longest run catalog
MaxTime == 8        \* latest instant of the clock
MaxEsafs == 2       \* longest upstream ESAF listing
MaxNruns == 3       \* largest nruns argument
MaxEntries == 2     \* longest upstream list of beamtime requests

-----------------------------------------------------------------------------
(* Generic helpers: Python list operations.                                *)

Range(s) == {s[i] : i \in 1..Len(s)}

\* s[:n] for n >= 0
Take(s, n) == SubSeq(s, 1, IF n < Len(s) THEN n ELSE Len(s))

\* list.index(x), 1-based; 0 when x is absent (Python raises ValueError)
Index(s, x) ==
    IF \E i \in 1..Len(s) : s[i] = x
    THEN CHOOSE i \in 1..Len(s) : s[i] = x /\ \A j \in 1..(i - 1) : s[j] # x
    ELSE 0

RECURSIVE Insert(_, _)
\* insert the integer x into the ascending list s
Insert(s, x) ==
    IF s = <<>> THEN <<x>>
    ELSE IF s[1] <= x THEN <<s[1]>> \o Insert(Tail(s), x)
    ELSE <<x>> \o s

RECURSIVE sorted(_)
\* sorted(s) for a list of integers (insertion sort)
sorted(s) ==
    IF s = <<>> THEN <<>>
    ELSE Insert(sorted(SubSeq(s, 1, Len(s) - 1)), s[Len(s)])

\* s reversed
Reverse(s) == [i \in 1..Len(s) |-> s[Len(s) + 1 - i]]

-----------------------------------------------------------------------------
(* Run names and the run catalog.                                          *)

\* The run names of the model, in lexical (= chronological) order.
RunNames == <<"2020-2", "2020-3", "2021-1">>

\* Position of a run name in the lexical order of strings.
RunRank(name) == Index(RunNames, name)

\* int(run.split("-")[0])
RunYear(run) ==
    CASE run \in {"2020-2", "2020-3"} -> 2020
      [] run = "2021-1" -> 2021

\* sorted(names, reverse=True) for a list of run names
sorted_reverse(names) ==
    LET ranks == sorted([i \in 1..Len(names) |-> RunRank(names[i])])
    IN [i \in 1..Len(ranks) |-> RunNames[ranks[Len(ranks) + 1 - i]]]

\* The upstream record of each run: a shutdown between "2020-3" and
\* "2021-1" (no run contains instant 5), none between the other two.
RunInfo(name) ==
    CASE name = "2020-2" -> [name |-> name, startTime |-> 1, endTime |-> 2]
      [] name = "2020-3" -> [name |-> name, startTime |-> 3, endTime |-> 4]
      [] name = "2021-1" -> [name |-> name, startTime |-> 6, endTime |-> 7]

\* Every catalog of at most MaxRuns distinct runs, in any upstream order.
Catalogs ==
    LET n == IF MaxRuns < Len(RunNames) THEN MaxRuns ELSE Len(RunNames)
        Seqs == UNION {[1..k -> Range(RunNames)] : k \in 0..n}
    IN {[i \in 1..Len(s) |-> RunInfo(s[i])] :
            s \in {t \in Seqs : \A i, j \in 1..Len(t) : i # j => t[i] # t[j]}}

Times == 0..MaxTime

-----------------------------------------------------------------------------
(* core.py                                                                 *)

\* The UTC offset of the local time zone, in the model's unit of time.
LocalUtcOffset == 1

\* iso2dt: a naive ISO text (its wall-clock reading) is taken as local time
\* and becomes an instant.
iso2dt(isodate) == isodate - LocalUtcOffset

RECURSIVE current_run_scan_open_end(_, _)
\* current_run_scan with "now < end" (the fault C7 is tried on)
current_run_scan_open_end(runs, t) ==
    IF runs = <<>> THEN EmptyDict
    ELSE IF runs[1].startTime <= t /\ t < runs[1].endTime THEN runs[1]
    ELSE current_run_scan_open_end(Tail(runs), t)

\* ScheduleInterfaceBase.current_run: the first run of _runs whose interval
\* contains now, else {}.
RECURSIVE current_run_scan(_, _)
current_run_scan(runs, t) ==
    IF runs = <<>> THEN EmptyDict
    ELSE IF runs[1].startTime <= t /\ t <= runs[1].endTime THEN runs[1]
    ELSE current_run_scan(Tail(runs), t)

ScheduleInterfaceBase_current_run == current_run_scan(listRuns, now)

\* ScheduleInterfaceBase.runs: the names of _runs, in the order of _runs.
ScheduleInterfaceBase_runs == [i \in 1..Len(listRuns) |-> listRuns[i].name]

-----------------------------------------------------------------------------
(* Python values passed as arguments, with their type.                     *)

PyNone == [t |-> "NoneType", v |-> None]
PyStr(x) == [t |-> "str", v |-> x]
PyInt(n) == [t |-> "int", v |-> n]
PyList(x) == [t |-> "list", v |-> x]

\* "run or self.current_run": None, "" and 0 are falsy
Falsy(x) ==
    \/ x.t = "NoneType"
    \/ x.t = "str" /\ x.v = ""
    \/ x.t = "int" /\ x.v = 0
    \/ x.t = "list" /\ x.v = <<>>

-----------------------------------------------------------------------------
(* server_interface.py: class Server (the facade).  The backend behind     *)
(* bss_api is used through the ScheduleInterfaceBase contract (runs,       *)
(* _runs, current_run).                                                    *)

\* Server.runs
Server_runs == ScheduleInterfaceBase_runs

\* Server._runs: {r["name"]: r for r in self.bss_api._runs}
Server__runs ==
    [n \in {listRuns[i].name : i \in 1..Len(listRuns)} |->
        LET i == CHOOSE i \in 1..Len(listRuns) :
                    /\ listRuns[i].name = n
                    /\ \A j \in (i + 1)..Len(listRuns) : listRuns[j].name # n
        IN listRuns[i]]

\* a variant of Server_current_run that returns an empty name when no run
\* is current
current_run_or_empty ==
    LET run == ScheduleInterfaceBase_current_run
    IN IF "name" \in DOMAIN run THEN Return(run.name) ELSE Return("")

\* Server.current_run: self.bss_api.current_run["name"]
Server_current_run ==
    LET run == ScheduleInterfaceBase_current_run
    IN IF "name" \in DOMAIN run THEN Return(run.name)
       ELSE Raise("KeyError", <<"name">>)

\* Server.recent_runs(nruns):
\*   sorted(runs[: 1 + runs.index(self.current_run)], reverse=True)[:nruns]
Server_recent_runs(nruns) ==
    LET runs == Server_runs
        cur == Server_current_run
    IN IF cur.exc # "none" THEN cur
       ELSE IF Index(runs, cur.value) = 0
       THEN Raise("ValueError", <<cur.value, "is not in list">>)
       ELSE Return(Take(sorted_reverse(Take(runs, Index(runs, cur.value))), nruns))

\* parse_runs_previous on the catalog in upstream order, reversed but not
\* sorted
parse_runs_previous_unsorted ==
    LET rr == Reverse(Server_runs)
        cur == Server_current_run
        p == Index(rr, cur.value)
    IN IF cur.exc # "none" THEN cur
       ELSE IF p = 0 THEN Raise("ValueError", <<cur.value, "is not in list">>)
       ELSE IF p + 1 > Len(rr) THEN Raise("IndexError", <<"list index out of range">>)
       ELSE Return(PyStr(rr[p + 1]))

\* Server._parse_runs_arg(runs), the branch of "past", "previous", "prior"
parse_runs_previous ==
    LET rr == sorted_reverse(Server_runs)
        cur == Server_current_run
        p == Index(rr, cur.value)
    IN IF cur.exc # "none" THEN cur
       ELSE IF p = 0 THEN Raise("ValueError", <<cur.value, "is not in list">>)
       ELSE IF p + 1 > Len(rr) THEN Raise("IndexError", <<"list index out of range">>)
       ELSE Return(PyStr(rr[p + 1]))

\* parse_runs_next without its "if p == 0" test: rr[p - 1] is then rr[-1],
\* the last of the list (the fault C6 is tried on)
parse_runs_next_unguarded ==
    LET rr == sorted_reverse(Server_runs)
        cur == Server_current_run
        p == Index(rr, cur.value)
    IN IF cur.exc # "none" THEN cur
       ELSE IF p = 0 THEN Raise("ValueError", <<cur.value, "is not in list">>)
       ELSE IF p = 1 THEN Return(PyStr(rr[Len(rr)]))
       ELSE Return(PyStr(rr[p - 1]))

\* Server._parse_runs_arg(runs), the branch of "future", "next"
parse_runs_next ==
    LET rr == sorted_reverse(Server_runs)
        cur == Server_current_run
        p == Index(rr, cur.value)
    IN IF cur.exc # "none" THEN cur
       ELSE IF p = 0 THEN Raise("ValueError", <<cur.value, "is not in list">>)
       ELSE IF p = 1
       THEN Raise("KeyError", <<"No runs in the future for run=", cur.value>>)
       ELSE Return(PyStr(rr[p - 1]))

\* Server._parse_runs_arg(runs), the symbolic names resolved
parse_runs_resolve(runs) ==
    IF runs.t = "NoneType" \/ (runs.t = "str" /\ runs.v \in {"current", "now", ""})
    THEN LET cur == Server_current_run
         IN IF cur.exc # "none" THEN cur ELSE Return(PyStr(cur.value))
    ELSE IF runs.t = "str" /\ runs.v \in {"past", "previous", "prior"}
    THEN parse_runs_previous
    ELSE IF runs.t = "str" /\ runs.v \in {"future", "next"}
    THEN parse_runs_next
    ELSE IF runs.t = "str" /\ runs.v = "recent"
    THEN LET rr == Server_recent_runs(6)
         IN IF rr.exc # "none" THEN rr ELSE Return(PyList(rr.value))
    ELSE IF runs.t = "str" /\ runs.v = "all"
    THEN Return(PyList(Server_runs))
    ELSE Return(runs)

\* a variant of Server__parse_runs_arg without its isinstance test: what is
\* no list, set or tuple is wrapped into a list
parse_runs_arg_unchecked(runs) ==
    LET r == parse_runs_resolve(runs)
    IN IF r.exc # "none" THEN r
       ELSE IF r.value.t \notin {"list", "set", "tuple"} THEN Return({r.value.v})
       ELSE Return(Range(r.value.v))

\* Server._parse_runs_arg(runs): the set of run names
Server__parse_runs_arg(runs) ==
    LET r == parse_runs_resolve(runs)
    IN IF r.exc # "none" THEN r
       ELSE IF r.value.t \notin {"list", "set", "tuple", "str"}
       THEN Raise("TypeError", <<"Must be str or iterable, received: runs=", r.value.v>>)
       ELSE IF r.value.t = "str" THEN Return({r.value.v})
       ELSE Return(Range(r.value.v))

\* The attributes of the backend that Server._parse_runs_arg(runs) reads,
\* in the order of the code; each may send a request upstream.
parse_runs_reads(runs) ==
    IF runs.t = "NoneType" \/ (runs.t = "str" /\ runs.v \in {"current", "now", ""})
    THEN <<"current_run">>
    ELSE IF runs.t = "str" /\ runs.v \in {"past", "previous", "prior", "future", "next"}
    THEN <<"runs", "current_run">>
    ELSE IF runs.t = "str" /\ runs.v = "recent"
    THEN <<"runs", "current_run">>
    ELSE IF runs.t = "str" /\ runs.v = "all"
    THEN <<"runs">>
    ELSE <<>>

-----------------------------------------------------------------------------
(* Server.esafs                                                            *)

DigitChars == <<"0", "1", "2", "3", "4", "5", "6", "7", "8", "9">>

RECURSIVE Decimal(_)
\* str(n) for n >= 0, as the list of its characters
Decimal(n) ==
    IF n < 10 THEN <<DigitChars[n + 1]>>
    ELSE Decimal(n \div 10) \o <<DigitChars[(n % 10) + 1]>>

\* f"{n:02d}" for n >= 0
Format02d(n) == IF n < 10 THEN <<"0">> \o Decimal(n) ELSE Decimal(n)

\* a variant of normalize_sector without the "0" put before one character
normalize_sector_unpadded(sector) ==
    IF sector.t = "int" THEN Format02d(sector.v) ELSE sector.v

\* The sector as Server.esafs sends it upstream; a str sector is the list
\* of its characters.
normalize_sector(sector) ==
    LET s1 == IF sector.t = "int" THEN Format02d(sector.v) ELSE sector.v
    IN IF Len(s1) = 1 THEN <<"0">> \o s1 ELSE s1

\* esaf_in_run with the end of the run left out (the fault C1 is tried on)
esaf_in_run_open_end(esaf, run_info) ==
    /\ run_info.startTime <= iso2dt(esaf.experimentStartDate)
    /\ iso2dt(esaf.experimentStartDate) < run_info.endTime

\* run_info["startTime"] <= iso2dt(esaf["experimentStartDate"]) <= run_info["endTime"]
esaf_in_run(esaf, run_info) ==
    /\ run_info.startTime <= iso2dt(esaf.experimentStartDate)
    /\ iso2dt(esaf.experimentStartDate) <= run_info.endTime

RECURSIVE esafs_loop(_, _)
\* for esaf in esafs: ... results.append(esaf)
esafs_loop(esafs, run_info) ==
    IF esafs = <<>> THEN <<>>
    ELSE (IF esaf_in_run(esafs[1], run_info) THEN <<esafs[1]>> ELSE <<>>)
         \o esafs_loop(Tail(esafs), run_info)

\* A result together with the ESAF listings asked of esaf_api.
Asked(r, asked) ==
    [exc |-> r.exc, msg |-> r.msg, value |-> r.value, asked |-> asked]

\* a variant of Server_esafs that asks for the listing before it looks the
\* run up in the catalog
esafs_lists_first(sector, run, listEsafs) ==
    LET sec == normalize_sector(sector)
        cur == Server_current_run
        name == IF Falsy(run) THEN PyStr(cur.value) ELSE run
    IN IF Falsy(run) /\ cur.exc # "none" THEN Asked(cur, <<>>)
       ELSE IF name.t # "str"
       THEN Asked(Raise("TypeError", <<"Not a string: run=", name.v>>), <<>>)
       ELSE LET year == RunYear(name.v)
            IN IF name.v \notin DOMAIN Server__runs
               THEN Asked(Raise("RunNotFound", <<"Could not find run=", name.v>>),
                          <<[sector |-> sec, year |-> year]>>)
               ELSE Asked(Return(esafs_loop(listEsafs[year], Server__runs[name.v])),
                          <<[sector |-> sec, year |-> year]>>)

\* Server.esafs(sector, run); listEsafs[year] is what esaf_api.listEsafs
\* answers for the year asked.
Server_esafs(sector, run, listEsafs) ==
    LET sec == normalize_sector(sector)
        cur == Server_current_run
        name == IF Falsy(run) THEN PyStr(cur.value) ELSE run
    IN IF Falsy(run) /\ cur.exc # "none" THEN Asked(cur, <<>>)
       ELSE IF name.t # "str"
       THEN Asked(Raise("TypeError", <<"Not a string: run=", name.v>>), <<>>)
       ELSE IF name.v \notin DOMAIN Server__runs
       THEN Asked(Raise("RunNotFound", <<"Could not find run=", name.v>>), <<>>)
       ELSE LET year == RunYear(name.v)
            IN Asked(Return(esafs_loop(listEsafs[year], Server__runs[name.v])),
                     <<[sector |-> sec, year |-> year]>>)

\* servers.py Server.esafs(sector, run): the run is not defaulted.
servers_Server_esafs(sector, run, listEsafs) ==
    LET sec == normalize_sector(sector)
    IN IF run.t # "str" \/ run.v \notin DOMAIN Server__runs
       THEN Asked(Raise("RunNotFound", <<"Could not find run=", run.v>>), <<>>)
       ELSE LET year == RunYear(run.v)
            IN Asked(Return(esafs_loop(listEsafs[year], Server__runs[run.v])),
                     <<[sector |-> sec, year |-> year]>>)

-----------------------------------------------------------------------------
(* Server.proposals and Server.current_esafs_and_proposals.  A dict is a   *)
(* function; the list of its values, in insertion order, is kept where the *)
(* code iterates over it.                                                  *)

\* beamline.split("-")[0], as the list of its characters
BeamlineSector(beamline) ==
    CASE beamline = "9-ID-B,C" -> <<"9">>
      [] beamline = "12-ID-B" -> <<"1", "2">>

\* Server.proposals(beamline, run); listProposals[run] is the list of the
\* values of the dict that bss_api.proposals(beamline, run) answers.
Server_proposals(beamline, run, listProposals) ==
    LET cur == Server_current_run
        name == IF Falsy(run) THEN PyStr(cur.value) ELSE run
    IN IF Falsy(run) /\ cur.exc # "none" THEN cur
       ELSE IF name.t # "str"
       THEN Raise("TypeError", <<"Not a string: run=", name.v>>)
       ELSE Return(listProposals[name.v])

\* a variant of Server_proposal without its "if proposal is None" test
proposal_unchecked(proposal_id, beamline, run, proposals) ==
    LET cur == Server_current_run
        name == IF Falsy(run) THEN PyStr(cur.value) ELSE run
    IN IF Falsy(run) /\ cur.exc # "none" THEN cur
       ELSE IF name.t # "str"
       THEN Raise("TypeError", <<"Not a string: run=", name.v>>)
       ELSE IF proposal_id \in DOMAIN proposals[name.v]
       THEN Return(proposals[name.v][proposal_id])
       ELSE Return(PyNone)

\* Server.proposal(proposal_id, beamline, run); proposals[run] is the dict
\* that bss_api.proposals(beamline, run) answers.
Server_proposal(proposal_id, beamline, run, proposals) ==
    LET cur == Server_current_run
        name == IF Falsy(run) THEN PyStr(cur.value) ELSE run
    IN IF Falsy(run) /\ cur.exc # "none" THEN cur
       ELSE IF name.t # "str"
       THEN Raise("TypeError", <<"Not a string: run=", name.v>>)
       ELSE IF proposal_id \in DOMAIN proposals[name.v]
       THEN Return(proposals[name.v][proposal_id])
       ELSE Raise("ProposalNotFound",
                  <<"proposal_id=", proposal_id, "beamline=", beamline,
                    "run=", name.v>>)

\* a variant of DictBy in which the first item of a key stays
DictBy_first_wins(keys, items) ==
    [k \in Range(keys) |->
        LET i == CHOOSE i \in 1..Len(items) :
                    /\ keys[i] = k
                    /\ \A j \in 1..(i - 1) : keys[j] # k
        IN items[i]]

\* {keys[i]: items[i] for i}: a later item replaces an earlier one
DictBy(keys, items) ==
    [k \in Range(keys) |->
        LET i == CHOOSE i \in 1..Len(items) :
                    /\ keys[i] = k
                    /\ \A j \in (i + 1)..Len(items) : keys[j] # k
        IN items[i]]

\* sorted([u["badge"] for u in users])
sorted_badges(users) == sorted([i \in 1..Len(users) |-> users[i].badge])

\* sorted(ids) for a set of integers
RECURSIVE sorted_set(_)
sorted_set(S) ==
    IF S = {} THEN <<>>
    ELSE LET m == CHOOSE x \in S : \A y \in S : x <= y
         IN <<m>> \o sorted_set(S \ {m})

\* the comparison of two badge sets that ignores how often a badge is
\* listed (the fault C2 is tried on)
badges_match_as_sets(ebadge, pbadge) == Range(ebadge) = Range(pbadge)

\* the comparison of two badge lists that takes a list of no badges to
\* match nothing
badges_match_nonempty(ebadge, pbadge) == ebadge # <<>> /\ ebadge = pbadge

\* "if ebadge == pbadge": both are sorted lists of badges
badges_match(ebadge, pbadge) == ebadge = pbadge

\* the ESAFs whose badges are those of a proposal
common(esaf_badges, pbadge) ==
    {esaf_id \in DOMAIN esaf_badges : badges_match(esaf_badges[esaf_id], pbadge)}

\* a variant of match_badges without its "if len(common) > 0" test
match_badges_keeps_all(esaf_badges, proposal_badges) ==
    [proposal_id \in DOMAIN proposal_badges |->
        sorted_set(common(esaf_badges, proposal_badges[proposal_id]))]

\* the loop that fills matches: {proposal_id: sorted(common)} where common
\* is not empty
match_badges(esaf_badges, proposal_badges) ==
    [proposal_id \in {k \in DOMAIN proposal_badges :
                        common(esaf_badges, proposal_badges[k]) # {}} |->
        sorted_set(common(esaf_badges, proposal_badges[proposal_id]))]

RECURSIVE gather(_, _, _, _, _)
\* the loop over recent_runs(nruns): the ESAFs and the proposals gathered,
\* or the exception that ended the loop
gather(runs, beamline, listEsafs, listProposals, acc) ==
    IF runs = <<>> THEN acc
    ELSE LET e == Server_esafs(PyStr(BeamlineSector(beamline)), PyStr(runs[1]),
                               listEsafs)
             ppp == Server_proposals(beamline, PyStr(runs[1]), listProposals)
         IN IF e.exc # "none"
            THEN [acc EXCEPT !.exc = e.exc, !.msg = e.msg]
            ELSE IF ppp.exc # "none"
            THEN [acc EXCEPT !.exc = ppp.exc, !.msg = ppp.msg]
            ELSE gather(Tail(runs), beamline, listEsafs, listProposals,
                        [acc EXCEPT !.esafs = @ \o e.value,
                                    !.proposals = @ \o ppp.value])

\* Server.current_esafs_and_proposals(beamline, nruns).  The result also
\* carries the two dicts that were matched.
Server_current_esafs_and_proposals(beamline, nruns, listEsafs, listProposals) ==
    LET rr == Server_recent_runs(nruns)
        g == gather(rr.value, beamline, listEsafs, listProposals,
                    [exc |-> "none", msg |-> <<>>, esafs |-> <<>>,
                     proposals |-> <<>>])
        esafs_ == DictBy([i \in 1..Len(g.esafs) |-> g.esafs[i].esafId],
                         g.esafs)
        proposals_ == DictBy([i \in 1..Len(g.proposals) |->
                                g.proposals[i].proposal_id], g.proposals)
        esaf_badges == [k \in DOMAIN esafs_ |->
                            sorted_badges(esafs_[k].experimentUsers)]
        proposal_badges == [k \in DOMAIN proposals_ |->
                                sorted_badges(proposals_[k]._users)]
        matches == match_badges(esaf_badges, proposal_badges)
    IN IF rr.exc # "none"
       THEN [exc |-> rr.exc, msg |-> rr.msg, value |-> None,
             esafs |-> EmptyDict, proposals |-> EmptyDict]
       ELSE IF g.exc # "none"
       THEN [exc |-> g.exc, msg |-> g.msg, value |-> None,
             esafs |-> EmptyDict, proposals |-> EmptyDict]
       ELSE [exc |-> "none", msg |-> <<>>, value |-> matches,
             esafs |-> esafs_, proposals |-> proposals_]

-----------------------------------------------------------------------------
(* bss_is.py: IS_SchedulingServer, construction and credentials            *)

\* IS_SchedulingServer.__init__
IS_SchedulingServer__init__ ==
    [creds |-> PyNone, response |-> PyNone, _beamline |-> PyNone,
     _run |-> PyNone, _proposals |-> EmptyDict, _cache |-> EmptyDict]

\* IS_SchedulingServer.auth_from_creds(username, password)
auth_from_creds(self, username, password) ==
    [self EXCEPT !.creds = [t |-> "HTTPBasicAuth", username |-> username,
                            password |-> password]]

\* IS_SchedulingServer.auth_from_file(creds_file): the file is None, is
\* missing, or holds a text; text.strip().split() is the list of its words.
auth_from_file(self, creds_file) ==
    IF creds_file.t = "NoneType"
    THEN [exc |-> "TypeError", self |-> self]
    ELSE IF ~creds_file.exists
    THEN [exc |-> "FileNotFoundError", self |-> self]
    ELSE IF Len(creds_file.words) # 2
    THEN [exc |-> "TypeError", self |-> self]
    ELSE [exc |-> "none",
          self |-> auth_from_creds(self, creds_file.words[1], creds_file.words[2])]

\* a construction that falls back only when the file cannot be opened
\* (the fault C8 is tried on)
Server__init__open_errors_only(c) ==
    IF c.construct # "ok"
    THEN [bss_api |-> "DM", ss |-> IS_SchedulingServer__init__]
    ELSE LET a == auth_from_file(IS_SchedulingServer__init__, c.creds_file)
         IN IF a.exc = "FileNotFoundError"
            THEN [bss_api |-> "DM", ss |-> IS_SchedulingServer__init__]
            ELSE [bss_api |-> "IS", ss |-> a.self]

\* Server.__init__(creds_file): the restful adapter with credentials from
\* the file, else (except Exception) the legacy adapter.
Server__init__(c) ==
    IF c.construct # "ok"
    THEN [bss_api |-> "DM", ss |-> IS_SchedulingServer__init__]
    ELSE LET a == auth_from_file(IS_SchedulingServer__init__, c.creds_file)
         IN IF a.exc # "none"
            THEN [bss_api |-> "DM", ss |-> IS_SchedulingServer__init__]
            ELSE [bss_api |-> "IS", ss |-> a.self]

-----------------------------------------------------------------------------
(* bss_is.py: the operations of IS_SchedulingServer.  An operation takes   *)
(* the instance and the answers of the upstream server to the requests it  *)
(* may send; it gives the instance afterwards, the requests sent, and what *)
(* the call comes to.                                                      *)

ISResult(self, requests, r) ==
    [self |-> self, requests |-> requests, exc |-> r.exc, msg |-> r.msg,
     value |-> r.value]

\* f"{self.base}/{api}": the request is kept in its parts
Api(path, run, beamline) == [path |-> path, run |-> run, beamline |-> beamline]

\* the classification of a response that is not ok by the spelling of the
\* status line only (the fault C10 is tried on)
raiser_unauthorized_only(reason) ==
    IF reason = "Unauthorized" THEN "IS_Unauthorized" ELSE "IS_Exception"

\* {"Unauthorized": ..., "Forbidden": ...}.get(reason, IS_Exception)
raiser(reason) ==
    CASE reason = "Unauthorized" -> "IS_Unauthorized"
      [] reason = "Forbidden" -> "IS_NotAllowedToRespond"
      [] OTHER -> "IS_Exception"

\* requests.get(uri, auth=self.creds) and what follows it in webget.  The
\* answer is a response, None, or an exception of the HTTP client.
webget_send(self, api, answer) ==
    IF answer.kind = "raise"
    THEN ISResult(self, <<api>>, Raise("ConnectionError", <<>>))
    ELSE IF answer.kind = "None"
    THEN ISResult([self EXCEPT !.response = PyNone], <<api>>,
                  Raise("IS_Exception",
                        <<"None response from server.  uri=", api>>))
    ELSE LET response == [t |-> "Response", ok |-> answer.ok,
                          reason |-> answer.reason, text |-> answer.text,
                          url |-> api, json |-> answer.json]
             self1 == [self EXCEPT !.response = response]
         IN IF ~response.ok
            THEN ISResult(self1, <<api>>,
                          Raise(raiser(response.reason),
                                <<"reason: ", response.reason,
                                  ", text: ", response.text,
                                  ", URL: ", response.url>>))
            ELSE ISResult(self1, <<api>>, Return(response.json))

\* a webget that sends the request and looks at the credentials afterwards
\* (the fault C9 is tried on)
webget_checks_late(self, api, answer) ==
    IF self.creds.t = "NoneType"
    THEN ISResult(webget_send(self, api, answer).self, <<api>>,
                  Raise("IS_MissingAuthentication",
                        <<"Authentication is not set.">>))
    ELSE webget_send(self, api, answer)

\* IS_SchedulingServer.webget(api)
IS_SchedulingServer_webget(self, api, answer) ==
    IF self.creds.t = "NoneType"
    THEN ISResult(self, <<>>, Raise("IS_MissingAuthentication",
                                    <<"Authentication is not set.">>))
    ELSE webget_send(self, api, answer)

\* the value a local variable is bound to: Only({e : x \in {v}}) is e with
\* x naming the value of v
Only(S) == CHOOSE x \in S : TRUE

\* IS_SchedulingServer.current_run: entries[0] of "run/getCurrentRun"
IS_SchedulingServer_current_run(self, answer) ==
    Only({IF w.exc # "none" THEN w
          ELSE IF w.value = <<>>
          THEN ISResult(w.self, w.requests,
                        Raise("IndexError", <<"list index out of range">>))
          ELSE ISResult(w.self, w.requests, Return(w.value[1])) :
            w \in {IS_SchedulingServer_webget(
                        self, Api("run/getCurrentRun", "", ""), answer)}})

\* "if run is None: run = self.current_run["runName"]"
resolve_run(self, run, curAnswer) ==
    IF run.t # "NoneType" THEN ISResult(self, <<>>, Return(run))
    ELSE Only({IF c.exc # "none" THEN c
               ELSE ISResult(c.self, c.requests,
                             Return(PyStr(c.value.runName))) :
                c \in {IS_SchedulingServer_current_run(self, curAnswer)}})

\* d[key] = value
DictSet(d, key, value) ==
    [k \in DOMAIN d \cup {key} |-> IF k = key THEN value ELSE d[k]]

\* {miner(activity, "beamtime.proposal.gupId"): dict(activity) for ...}
ActivitiesByGupId(activities_) ==
    DictBy([i \in 1..Len(activities_) |-> activities_[i].gupId], activities_)

\* IS_SchedulingServer.activities(beamline, run), run already resolved
activities_of_run(self, beamline, run, actAnswer) ==
    IF <<"activities", beamline, run.v>> \in DOMAIN self._cache
    THEN ISResult(self, <<>>,
                  Return(self._cache[<<"activities", beamline, run.v>>]))
    ELSE Only({IF w.exc # "none" THEN w
               ELSE ISResult([w.self EXCEPT
                                !._cache = DictSet(@, <<"activities", beamline,
                                                        run.v>>,
                                                   ActivitiesByGupId(w.value))],
                             w.requests, Return(ActivitiesByGupId(w.value))) :
                w \in {IS_SchedulingServer_webget(
                            self,
                            Api("activity/findByRunNameAndBeamlineId", run.v,
                                beamline),
                            actAnswer)}})

\* IS_SchedulingServer.activities(beamline, run=None)
IS_SchedulingServer_activities(self, beamline, run, curAnswer, actAnswer) ==
    Only({IF r.exc # "none" THEN r
          ELSE Only({ISResult(a.self, r.requests \o a.requests, a) :
                        a \in {activities_of_run(r.self, beamline, r.value,
                                                 actAnswer)}}) :
            r \in {resolve_run(self, run, curAnswer)}})

\* a variant of enrich that leaves the entry as it came
enrich_never(entry, activities_) == entry

\* entry["activity"] = activity, when there is one for the gupId
enrich(entry, activities_) ==
    IF entry.gupId \in DOMAIN activities_
    THEN [entry EXCEPT !.activity = [t |-> "dict", v |-> activities_[entry.gupId]]]
    ELSE entry

RECURSIVE proposals_loop(_, _, _, _, _, _)
\* "for entry in entries", then "return self._proposals": acc is the
\* instance and the requests so far
proposals_loop(acc, entries, beamline, run, actAnswer, i) ==
    IF i > Len(entries)
    THEN ISResult(acc.self, acc.requests, Return(acc.self._proposals))
    ELSE Only({IF a.exc # "none"
               THEN ISResult(a.self, s.requests \o a.requests, a)
               ELSE proposals_loop(
                        ISResult([a.self EXCEPT
                                    !._proposals =
                                        DictSet(@, entries[i].gupId,
                                                enrich(entries[i], a.value))],
                                 s.requests \o a.requests, Return(None)),
                        entries, beamline, run, actAnswer, i + 1) :
                s \in {acc},
                a \in {activities_of_run(acc.self, beamline, run, actAnswer)}})

\* the fetch of IS_SchedulingServer.proposals, r the run as resolved
proposals_fetch(r, beamline, reqAnswer, actAnswer) ==
    Only({IF w.exc # "none"
          THEN ISResult(w.self, r.requests \o w.requests, w)
          ELSE proposals_loop(
                    ISResult([w.self EXCEPT !._beamline = PyStr(beamline),
                                            !._run = r.value,
                                            !._proposals = EmptyDict],
                             r.requests \o w.requests, Return(None)),
                    w.value, beamline, r.value, actAnswer, 1) :
            w \in {IS_SchedulingServer_webget(
                        r.self,
                        Api("beamtimeRequests/findBeamtimeRequestsByRunAndBeamline",
                            r.value.v, beamline),
                        reqAnswer)}})

\* a slot that is taken to hold no pair (the fault C3 is tried on)
slot_never_holds(self, beamline, run) == FALSE

\* a slot that is looked up by the beamline only (the fault C4 is tried on)
slot_holds_beamline(self, beamline, run) == PyStr(beamline) = self._beamline

\* not (beamline != self._beamline or run != self._run)
slot_holds(self, beamline, run) ==
    PyStr(beamline) = self._beamline /\ run = self._run

\* IS_SchedulingServer.proposals(beamline, run=None)
IS_SchedulingServer_proposals(self, beamline, run, curAnswer, reqAnswer, actAnswer) ==
    Only({IF r.exc # "none" THEN r
          ELSE IF slot_holds(r.self, beamline, r.value)
          THEN ISResult(r.self, r.requests, Return(r.self._proposals))
          ELSE proposals_fetch(r, beamline, reqAnswer, actAnswer) :
            r \in {resolve_run(self, run, curAnswer)}})

-----------------------------------------------------------------------------
(* Inputs of the calls.                                                    *)

NoFile == [t |-> "NoneType", exists |-> FALSE, words |-> <<>>]
CredsFiles ==
    {NoFile, [t |-> "file", exists |-> FALSE, words |-> <<>>]}
    \cup {[t |-> "file", exists |-> TRUE, words |-> w] :
            w \in {<<>>, <<"user">>, <<"user", "password">>,
                   <<"user", "password", "more">>}}

CtorInputs == [creds_file : CredsFiles, construct : {"ok", "error"}]

Years == {RunYear(RunNames[i]) : i \in 1..Len(RunNames)}

\* ESAF records as esaf_api.listEsafs returns them; experimentStartDate is
\* the wall-clock reading of its ISO text.
EsafDates ==
    (RunInfo(RunNames[1]).startTime + LocalUtcOffset - 1)
        .. (RunInfo(RunNames[Len(RunNames)]).endTime + LocalUtcOffset)

\* Listings for Server.esafs: the ESAF at position i has esafId i.
EsafListings ==
    UNION {{[i \in 1..k |-> [esafId |-> i, experimentStartDate |-> d[i],
                             experimentUsers |-> <<>>]] :
                d \in [1..k -> EsafDates]} : k \in 0..MaxEsafs}

\* Arguments of several Python types are kept in lists, not sets.
Sectors == <<PyInt(9), PyStr(<<"9">>), PyStr(<<"0", "9">>), PyInt(12)>>

RunArgs == {PyNone, PyStr("")} \cup {PyStr(RunNames[i]) : i \in 1..Len(RunNames)}

ParseArgs ==
    <<PyNone, PyInt(1), PyList(<<"2020-2", "2020-3", "2020-2">>),
      PyStr(""), PyStr("now"), PyStr("current"),
      PyStr("past"), PyStr("previous"), PyStr("prior"),
      PyStr("future"), PyStr("next"), PyStr("recent"), PyStr("all"),
      PyStr("2020-2"), PyStr("1999-1"), PyList(<<>>),
      [t |-> "tuple", v |-> <<"1999-1", "2020-3", "1999-1">>]>>

-----------------------------------------------------------------------------
(* The facade's calls as actions.                                          *)

Idle == [op |-> "idle"]

\* The caller takes the result.
Done ==
    /\ last # Idle
    /\ last' = Idle
    /\ UNCHANGED <<now, listRuns, ctor, bss_api, ss>>

\* Time passes between calls.
Tick ==
    /\ last = Idle
    /\ now < MaxTime
    /\ now' = now + 1
    /\ UNCHANGED <<listRuns, ctor, bss_api, ss, last>>

\* A call is made when the caller holds no result, and leaves its result.
current_run ==
    /\ last = Idle
    /\ last' = [op |-> "current_run",
                result |-> Return(ScheduleInterfaceBase_current_run)]
    /\ UNCHANGED <<now, listRuns, ctor, bss_api, ss>>

esafs ==
    /\ last = Idle
    /\ \E i \in 1..Len(Sectors), run \in RunArgs, listing \in EsafListings :
        last' = [op |-> "esafs", sector |-> Sectors[i], run |-> run,
                 listing |-> listing,
                 result |-> Server_esafs(Sectors[i], run,
                                         [y \in Years |-> listing])]
    /\ UNCHANGED <<now, listRuns, ctor, bss_api, ss>>

recent_runs ==
    /\ last = Idle
    /\ \E nruns \in 0..MaxNruns :
        last' = [op |-> "recent_runs", nruns |-> nruns,
                 result |-> Server_recent_runs(nruns)]
    /\ UNCHANGED <<now, listRuns, ctor, bss_api, ss>>

_parse_runs_arg ==
    /\ last = Idle
    /\ \E i \in 1..Len(ParseArgs) :
        last' = [op |-> "_parse_runs_arg", runs |-> ParseArgs[i],
                 reads |-> parse_runs_reads(ParseArgs[i]),
                 result |-> Server__parse_runs_arg(ParseArgs[i])]
    /\ UNCHANGED <<now, listRuns, ctor, bss_api, ss>>

\* The dicts an adapter answers: proposals 1 and 2, each present or not,
\* under either of two titles.
ProposalDicts ==
    UNION {[K -> {[title |-> "A"], [title |-> "B"]}] : K \in SUBSET {1, 2}}

proposal ==
    /\ last = Idle
    /\ \E proposal_id \in 1..3, beamline \in {"9-ID-B,C", "12-ID-B"},
          run \in RunArgs, d \in ProposalDicts :
        last' = [op |-> "proposal", proposal_id |-> proposal_id,
                 beamline |-> beamline, run |-> run, proposals |-> d,
                 result |-> Server_proposal(proposal_id, beamline, run,
                                            [r \in Range(RunNames) |-> d])]
    /\ UNCHANGED <<now, listRuns, ctor, bss_api, ss>>

\* Server.proposals and Server.current_esafs_and_proposals while the
\* upstream holds no ESAF and no proposal
proposals_of_none ==
    /\ last = Idle
    /\ \E beamline \in {"9-ID-B,C"}, run \in RunArgs :
        last' = [op |-> "proposals", beamline |-> beamline, run |-> run,
                 result |-> Server_proposals(beamline, run,
                                             [r \in Range(RunNames) |-> <<>>])]
    /\ UNCHANGED <<now, listRuns, ctor, bss_api, ss>>

current_esafs_and_proposals_of_none ==
    /\ last = Idle
    /\ \E beamline \in {"9-ID-B,C"}, nruns \in {0, MaxNruns} :
        last' = [op |-> "current_esafs_and_proposals", beamline |-> beamline,
                 nruns |-> nruns,
                 result |-> Server_current_esafs_and_proposals(
                                beamline, nruns, [y \in Years |-> <<>>],
                                [r \in Range(RunNames) |-> <<>>])]
    /\ UNCHANGED <<now, listRuns, ctor, bss_api, ss>>

InitWith(c) ==
    /\ ctor = c
    /\ bss_api = Server__init__(c).bss_api
    /\ ss = Server__init__(c).ss
    /\ last = Idle

\* The facade, built with the default creds_file=None, on any run catalog.
Init ==
    /\ now \in Times
    /\ listRuns \in Catalogs
    /\ InitWith([creds_file |-> NoFile, construct |-> "ok"])

Next ==
    \/ Tick
    \/ current_run
    \/ esafs
    \/ recent_runs
    \/ _parse_runs_arg
    \/ proposal
    \/ proposals_of_none
    \/ current_esafs_and_proposals_of_none
    \/ Done

Spec == Init /\ [][Next]_vars

-----------------------------------------------------------------------------
(* The facade built from every constructor input.                          *)

InitCtor ==
    /\ now = 0
    /\ listRuns = [i \in 1..Len(RunNames) |-> RunInfo(RunNames[i])]
    /\ \E c \in CtorInputs : InitWith(c)

SpecCtor == InitCtor /\ [][Next]_vars

-----------------------------------------------------------------------------
(* Server.current_esafs_and_proposals on the chronological catalog, at an  *)
(* instant of the last but one or of the last run.                         *)

Beamlines == {"9-ID-B,C"}

\* lists of users by badge: none, one, two in either order, one twice
BadgeLists ==
    {<<>>, <<10>>, <<20>>, <<10, 20>>, <<20, 10>>, <<10, 10>>}

Users(badges) == [i \in 1..Len(badges) |-> [badge |-> badges[i]]]

\* ESAFs that start within run "2020-3"; the one at position i has esafId i
MatchEsafListings ==
    UNION {{[i \in 1..k |->
                [esafId |-> i,
                 experimentStartDate |->
                     RunInfo("2020-3").startTime + LocalUtcOffset,
                 experimentUsers |-> Users(b[i])]] :
                b \in [1..k -> BadgeLists]} : k \in 0..MaxEsafs}

\* the values of the dict of proposals of one run: none or one
ProposalLists(ids) ==
    {<<>>} \cup {<<[proposal_id |-> id, _users |-> Users(b)]>> :
                    id \in ids, b \in BadgeLists}

current_esafs_and_proposals ==
    /\ last = Idle
    /\ \E beamline \in Beamlines, nruns \in 0..MaxNruns,
          listing \in MatchEsafListings,
          P \in ProposalLists({1, 2}), Q \in ProposalLists({2}) :
        last' = [op |-> "current_esafs_and_proposals", beamline |-> beamline,
                 nruns |-> nruns, listing |-> listing,
                 proposals |-> [r \in Range(RunNames) |->
                                    IF r = "2020-3" THEN P ELSE Q],
                 result |-> Server_current_esafs_and_proposals(
                                beamline, nruns, [y \in Years |-> listing],
                                [r \in Range(RunNames) |->
                                    IF r = "2020-3" THEN P ELSE Q])]
    /\ UNCHANGED <<now, listRuns, ctor, bss_api, ss>>

InitMatch ==
    /\ now \in {RunInfo("2020-3").endTime, RunInfo("2021-1").startTime}
    /\ listRuns = [i \in 1..Len(RunNames) |-> RunInfo(RunNames[i])]
    /\ InitWith([creds_file |-> NoFile, construct |-> "ok"])

NextMatch ==
    \/ current_esafs_and_proposals
    \/ Done

SpecMatch == InitMatch /\ [][NextMatch]_vars

-----------------------------------------------------------------------------
(* One IS_SchedulingServer instance, used directly.  The upstream server   *)
(* answers a request with a response (ok with a JSON list, or not ok),     *)
(* with None, or the HTTP client raises.                                   *)

Failure(reason, text) ==
    [kind |-> "response", ok |-> FALSE, reason |-> reason, text |-> text,
     json |-> <<>>]
Ok(json) ==
    [kind |-> "response", ok |-> TRUE, reason |-> "OK", text |-> "",
     json |-> json]

Failures ==
    {Failure("Unauthorized", "no access"), Failure("Forbidden", "no access"),
     Failure("Not Found", ""), [kind |-> "None"], [kind |-> "raise"]}

ISRuns == <<"2020-3", "2021-1">>

\* requests of webget that take no argument
WebgetApis ==
    {Api("run/getAllRuns", "", ""), Api("run/getCurrentRun", "", ""),
     Api("beamline/findAllActiveBeamlines", "", "")}

\* JSON lists of a response that is ok: of runs, by name
WebgetAnswers ==
    {Ok([i \in 1..n |-> [runName |-> ISRuns[i]]]) : n \in 0..Len(ISRuns)}
        \cup Failures

\* each call is told from the one before it
NextSeq == IF last.op = "idle" THEN 0 ELSE 1 - last.seq

IS_auth_from_creds ==
    /\ last' = [op |-> "auth_from_creds", seq |-> NextSeq]
    /\ ss' = auth_from_creds(ss, "user", "password")
    /\ UNCHANGED <<now, listRuns, ctor, bss_api>>

IS_webget ==
    /\ \E api \in WebgetApis, answer \in WebgetAnswers :
        \E c \in {IS_SchedulingServer_webget(ss, api, answer)} :
           /\ ss' = c.self
           /\ last' = [op |-> "webget", seq |-> NextSeq, api |-> api,
                       answer |-> answer, requests |-> c.requests,
                       result |-> [exc |-> c.exc, msg |-> c.msg,
                                   value |-> c.value]]
    /\ UNCHANGED <<now, listRuns, ctor, bss_api>>

InitIS ==
    /\ now = 0
    /\ listRuns = <<>>
    /\ ctor = [creds_file |-> NoFile, construct |-> "ok"]
    /\ bss_api = "IS"
    /\ ss = IS_SchedulingServer__init__
    /\ last = Idle

NextWebget ==
    \/ IS_auth_from_creds
    \/ IS_webget

SpecWebget == InitIS /\ [][NextWebget]_vars

-----------------------------------------------------------------------------
(* The single slot of IS_SchedulingServer.proposals.  The upstream server  *)
(* answers with the current run, with the beamtime requests gupId 1..n of  *)
(* the run and beamline asked, with their activities, or refuses.          *)

ISBeamlines == {"9-ID-B,C", "12-ID-B"}

Refusals == {Failure("Forbidden", "no access")}

CurrentRunAnswers ==
    {Ok(<<[runName |-> ISRuns[i]]>>) : i \in 1..Len(ISRuns)} \cup Refusals

RequestAnswers(run, beamline) ==
    {Ok([i \in 1..n |-> [gupId |-> i, run |-> run, beamline |-> beamline,
                         activity |-> PyNone]]) :
        n \in 0..MaxEntries} \cup Refusals

\* one activity, of gupId 1
ActivityAnswers == {Ok(<<[gupId |-> 1, activityId |-> 7]>>)} \cup Refusals

RunArgsIS == {PyNone} \cup {PyStr(ISRuns[i]) : i \in 1..Len(ISRuns)}

\* the call leaves the run it resolved, None when that failed
IS_proposals ==
    /\ \E beamline \in ISBeamlines, run \in RunArgsIS :
        \E curAnswer \in IF run.t = "NoneType" THEN CurrentRunAnswers
                         ELSE {Ok(<<>>)} :
        \E r \in {resolve_run(ss, run, curAnswer)} :
        \E resolved \in {IF r.exc = "none" THEN r.value ELSE PyNone} :
        \E reqAnswer \in RequestAnswers(resolved.v, beamline),
           actAnswer \in ActivityAnswers :
        \E c \in {IS_SchedulingServer_proposals(ss, beamline, run, curAnswer,
                                                reqAnswer, actAnswer)} :
           /\ ss' = c.self
           /\ last' = [op |-> "proposals", seq |-> NextSeq,
                       beamline |-> beamline, run |-> run,
                       resolved |-> resolved, requests |-> c.requests,
                       result |-> [exc |-> c.exc, msg |-> c.msg,
                                   value |-> c.value]]
    /\ UNCHANGED <<now, listRuns, ctor, bss_api>>

NextIS ==
    \/ IS_auth_from_creds
    \/ IS_proposals

SpecIS == InitIS /\ [][NextIS]_vars

-----------------------------------------------------------------------------
(* Properties.                                                             *)

CatalogNames == {listRuns[i].name : i \in 1..Len(listRuns)}

\* The runs of the catalog whose interval contains now.
RunsContainingNow ==
    {i \in 1..Len(listRuns) :
        listRuns[i].startTime <= now /\ now <= listRuns[i].endTime}

\* The run named n, as the catalog lists it.
CatalogRun(n) == listRuns[CHOOSE i \in 1..Len(listRuns) : listRuns[i].name = n]

\* C1: Server.esafs(sector, run), for a run of the catalog with startTime S
\* and endTime E, asks the upstream listing of (2-character sector, year of
\* the run name) and returns exactly the ESAFs of that listing whose
\* experimentStartDate t has S <= t <= E, both bounds included, in upstream
\* order; an ESAF that starts outside [S, E] is left out.
C1_EsafsWithinRun ==
    (last.op = "esafs" /\ last.run.v \in CatalogNames) =>
        LET run == CatalogRun(last.run.v)
            listing == last.listing
            got == last.result.value
            inside(e) ==
                /\ run.startTime + LocalUtcOffset <= e.experimentStartDate
                /\ e.experimentStartDate <= run.endTime + LocalUtcOffset
        IN /\ last.result.exc = "none"
           /\ Len(last.result.asked) = 1
           /\ last.result.asked[1].year = RunYear(last.run.v)
           /\ Len(last.result.asked[1].sector) = 2
           /\ \A i \in 1..Len(listing) :
                inside(listing[i]) <=> (\E j \in 1..Len(got) : got[j] = listing[i])
           /\ \A j \in 1..Len(got) : \E i \in 1..Len(listing) : got[j] = listing[i]
           /\ \A j, k \in 1..Len(got) : j < k => got[j].esafId < got[k].esafId

\* C1 witness: a listing of two ESAFs, the first starting at the very end
\* of the run (kept), the second one unit later (left out).
C1_Witness ==
    /\ last.op = "esafs"
    /\ last.run.v \in CatalogNames
    /\ Len(last.listing) = 2
    /\ iso2dt(last.listing[1].experimentStartDate) = CatalogRun(last.run.v).endTime
    /\ iso2dt(last.listing[2].experimentStartDate) = CatalogRun(last.run.v).endTime + 1
    /\ last.result.exc = "none"
    /\ last.result.value = <<last.listing[1]>>

\* C5: Server.recent_runs(n), on any run catalog that holds the current
\* run, returns at most n run names, in descending order, each of them <=
\* the current run name, the current run name among them when n >= 1.
C5_RecentRuns ==
    (last.op = "recent_runs" /\ RunsContainingNow # {}) =>
        LET got == last.result.value
            cur == Server_current_run.value
        IN /\ last.result.exc = "none"
           /\ Len(got) <= last.nruns
           /\ \A j, k \in 1..Len(got) : j < k => RunRank(got[j]) > RunRank(got[k])
           /\ \A j \in 1..Len(got) : RunRank(got[j]) <= RunRank(cur)
           /\ last.nruns >= 1 => cur \in Range(got)

\* The run names of the catalog that follow name n.
LaterRuns(n) == {m \in CatalogNames : RunRank(m) > RunRank(n)}

\* C6: Server._parse_runs_arg("next") (and "future"): when the current run
\* is the last run of the catalog the call raises KeyError (no future run);
\* when the catalog holds a later run the call returns the set of exactly
\* the one run name that follows the current run.
C6_NextRun ==
    (/\ last.op = "_parse_runs_arg"
     /\ last.runs.t = "str"
     /\ last.runs.v \in {"next", "future"}
     /\ RunsContainingNow # {}) =>
        LET cur == Server_current_run.value
        IN IF LaterRuns(cur) = {}
           THEN /\ last.result.exc = "KeyError"
                /\ last.result.msg = <<"No runs in the future for run=", cur>>
           ELSE /\ last.result.exc = "none"
                /\ \E m \in LaterRuns(cur) :
                    /\ last.result.value = {m}
                    /\ \A x \in LaterRuns(cur) : RunRank(m) <= RunRank(x)

\* C6 witness: "next" asked while two later runs are in the catalog; the
\* nearer one comes back.
C6_Witness ==
    /\ last.op = "_parse_runs_arg"
    /\ last.runs.t = "str"
    /\ last.runs.v = "next"
    /\ RunsContainingNow # {}
    /\ Cardinality(LaterRuns(Server_current_run.value)) = 2
    /\ last.result.exc = "none"
    /\ last.result.value = {"2020-3"}

\* C7: ScheduleInterfaceBase.current_run, on every well-formed catalog,
\* returns a run R of the catalog with R.startTime <= now <= R.endTime, or {}
\* when no run contains now; never a run whose interval does not hold now.
C7_CurrentRun ==
    last.op = "current_run" =>
        LET R == last.result.value
        IN /\ last.result.exc = "none"
           /\ IF RunsContainingNow = {}
              THEN DOMAIN R = {}
              ELSE /\ DOMAIN R # {}
                   /\ \E i \in RunsContainingNow : R = listRuns[i]
                   /\ R.startTime <= now /\ now <= R.endTime

\* C7 witness: now is the last instant of the second run listed, and that
\* run comes back.
C7_Witness ==
    /\ last.op = "current_run"
    /\ Len(listRuns) >= 2
    /\ now = listRuns[2].endTime
    /\ DOMAIN last.result.value # {}
    /\ last.result.value = listRuns[2]

\* the badges of a list of users, each as often as it is listed
BadgeBag(users) ==
    [b \in {users[i].badge : i \in 1..Len(users)} |->
        Cardinality({i \in 1..Len(users) : users[i].badge = b})]

\* C2: Server.current_esafs_and_proposals(beamline, nruns) maps a proposal
\* ID to an ESAF ID if and only if the ESAF's experimentUsers and the
\* proposal's experimenters list the same badges the same number of times,
\* in any order (equal sorted lists); a subset, a superset or an overlap
\* never matches.  Each value is the ascending list of the matching ESAF
\* IDs, and a proposal without a matching ESAF has no key.
C2_BadgeMatching ==
    (last.op = "current_esafs_and_proposals" /\ last.result.exc = "none") =>
        LET m == last.result.value
            E == last.result.esafs
            P == last.result.proposals
        IN /\ DOMAIN m \subseteq DOMAIN P
           /\ \A pid \in DOMAIN P, eid \in DOMAIN E :
                (pid \in DOMAIN m /\ eid \in Range(m[pid]))
                    <=> BadgeBag(E[eid].experimentUsers) = BadgeBag(P[pid]._users)
           /\ \A pid \in DOMAIN m :
                /\ m[pid] # <<>>
                /\ Range(m[pid]) \subseteq DOMAIN E
                /\ \A i, j \in 1..Len(m[pid]) : i < j => m[pid][i] < m[pid][j]

\* the example of the claim: P has badges 10, 20; E1 has 20, 10; E2 has 10
C2_Witness ==
    /\ last.op = "current_esafs_and_proposals"
    /\ last.result.exc = "none"
    /\ 1 \in DOMAIN last.result.proposals
    /\ last.result.proposals[1]._users = Users(<<10, 20>>)
    /\ DOMAIN last.result.esafs = {1, 2}
    /\ last.result.esafs[1].experimentUsers = Users(<<20, 10>>)
    /\ last.result.esafs[2].experimentUsers = Users(<<10>>)
    /\ last.result.value[1] = <<1>>

\* whether construction with the inputs c can keep the restful adapter
CredentialsLoad(c) ==
    /\ c.construct = "ok"
    /\ c.creds_file.t = "file"
    /\ c.creds_file.exists
    /\ Len(c.creds_file.words) = 2

\* C8: construction selects one backend: the restful adapter when it is
\* constructed and the credentials file is read as user name and password;
\* the legacy adapter on any failure (no file, missing file, bad format,
\* construction error).  No later operation, failing or not, changes
\* bss_api.
C8_BackendSelectedOnce ==
    bss_api = IF CredentialsLoad(ctor) THEN "IS" ELSE "DM"

\* fallback on a badly formatted file, seen after an operation that failed
C8_Witness ==
    /\ ctor.construct = "ok"
    /\ ctor.creds_file.exists
    /\ Len(ctor.creds_file.words) = 3
    /\ bss_api = "DM"
    /\ last.op = "_parse_runs_arg"
    /\ last.result.exc = "KeyError"


\* the requests of a call that ask for the given path
RequestsOf(requests, path) ==
    {i \in 1..Len(requests) : requests[i].path = path}

BeamtimeRequestsPath == "beamtimeRequests/findBeamtimeRequestsByRunAndBeamline"
ActivitiesPath == "activity/findByRunNameAndBeamlineId"

\* a proposals call follows a proposals call on the instance
SuccessiveProposals ==
    /\ last.op = "proposals"
    /\ last'.op = "proposals"
    /\ last'.seq # last.seq

DifferentPairCall ==
    /\ last'.op = "proposals"
    /\ last'.seq # (IF last.op = "idle" THEN 1 ELSE last.seq)
    /\ ss.creds.t # "NoneType"
    /\ last'.resolved.t = "str"
    /\ ~(ss._beamline = PyStr(last'.beamline) /\ ss._run = last'.resolved)

\* C4 as stated: a call for a pair other than the one of the slot fetches
\* the beamtime requests once and discards the prior set: afterwards the
\* slot is of the new pair and holds only its proposals.
C4_DifferentPairAlwaysReplaces ==
    [][DifferentPairCall
        => (/\ Cardinality(RequestsOf(last'.requests, BeamtimeRequestsPath)) = 1
            /\ ss'._beamline = PyStr(last'.beamline)
            /\ ss'._run = last'.resolved
            /\ \A k \in DOMAIN ss'._proposals :
                /\ ss'._proposals[k].beamline = last'.beamline
                /\ ss'._proposals[k].run = last'.resolved.v)]_vars

\* C4, amended: a call for a pair other than the one of the slot sends
\* exactly one request for the beamtime requests of the new pair, and at
\* most one for its activities.  When that fetch succeeds the slot is of
\* the new pair and holds only proposals of the new pair, so that a later
\* call for the earlier pair fetches again; when it fails the call raises
\* and the slot keeps the earlier pair and its proposals.
C4_DifferentPairFetchesOnce ==
    [][DifferentPairCall
        => LET reqs == RequestsOf(last'.requests, BeamtimeRequestsPath)
               acts == RequestsOf(last'.requests, ActivitiesPath)
               fetched == /\ ss'._beamline = PyStr(last'.beamline)
                          /\ ss'._run = last'.resolved
           IN /\ Cardinality(reqs) = 1
              /\ \A i \in reqs :
                    /\ last'.requests[i].run = last'.resolved.v
                    /\ last'.requests[i].beamline = last'.beamline
              /\ Cardinality(acts) <= 1
              /\ fetched =>
                    /\ \A k \in DOMAIN ss'._proposals :
                        /\ ss'._proposals[k].beamline = last'.beamline
                        /\ ss'._proposals[k].run = last'.resolved.v
                    /\ last'.result.exc = "none"
                            => last'.result.value = ss'._proposals
              /\ ~fetched =>
                    /\ last'.result.exc # "none"
                    /\ ss'._beamline = ss._beamline
                    /\ ss'._run = ss._run
                    /\ ss'._proposals = ss._proposals]_vars

\* a fetch that replaced the slot after another pair had been fetched
C4_Witness ==
    /\ last.op = "proposals"
    /\ last.result.exc = "none"
    /\ RequestsOf(last.requests, BeamtimeRequestsPath) # {}
    /\ DOMAIN ss._proposals = {1, 2}
    /\ ss._beamline = PyStr(last.beamline)
    /\ \E k \in DOMAIN ss._cache : k[2] # last.beamline

\* C9: IS_SchedulingServer.webget(api) on an instance without credentials
\* raises IS_MissingAuthentication("Authentication is not set."), sends no
\* request and leaves the instance (response, slot, cache) as it is.
C9_MissingAuthentication ==
    [][(last'.op = "webget" /\ ss.creds.t = "NoneType")
        => (/\ last'.result.exc = "IS_MissingAuthentication"
            /\ last'.result.msg = <<"Authentication is not set.">>
            /\ last'.requests = <<>>
            /\ ss' = ss)]_vars

C9_Witness ==
    /\ last.op = "webget"
    /\ ss.creds.t = "NoneType"
    /\ last.result.exc = "IS_MissingAuthentication"

\* C10: IS_SchedulingServer.webget(api), with credentials, on a response that
\* is not ok raises by the reason of the response: IS_Unauthorized for
\* "Unauthorized", IS_NotAllowedToRespond for "Forbidden", IS_Exception for
\* any other reason, with a message that holds the reason, the text and the
\* URL; on a response that is ok it returns the JSON of the response.
C10_WebgetClassifies ==
    (last.op = "webget" /\ ss.creds.t # "NoneType"
        /\ last.answer.kind = "response") =>
        IF last.answer.ok
        THEN /\ last.result.exc = "none"
             /\ last.result.value = last.answer.json
        ELSE /\ last.result.exc =
                    (CASE last.answer.reason = "Unauthorized" -> "IS_Unauthorized"
                       [] last.answer.reason = "Forbidden" -> "IS_NotAllowedToRespond"
                       [] OTHER -> "IS_Exception")
             /\ last.result.msg[2] = last.answer.reason
             /\ last.result.msg[4] = last.answer.text
             /\ last.result.msg[6] = last.api

C10_Witness ==
    /\ last.op = "webget"
    /\ last.answer.kind = "response"
    /\ last.answer.reason = "Forbidden"
    /\ last.result.exc = "IS_NotAllowedToRespond"

-----------------------------------------------------------------------------
(* core.py: miner.  A string handed to a core.py helper is the sequence of *)
(* its characters; a nested value is a typed record, a dictionary being a  *)
(* function from keys (strings as character sequences) to nested values.   *)

PyDict(d) == [t |-> "dict", v |-> d]

RECURSIVE str_split(_, _)
\* s.split(sep): the pieces of s between the occurrences of sep
str_split(s, sep) ==
    IF \A i \in 1..Len(s) : s[i] # sep THEN <<s>>
    ELSE LET i == CHOOSE i \in 1..Len(s) :
                      s[i] = sep /\ \A j \in 1..(i - 1) : s[j] # sep
         IN <<SubSeq(s, 1, i - 1)>> \o str_split(SubSeq(s, i + 1, Len(s)), sep)

RECURSIVE str_join(_, _)
\* sep.join(parts)
str_join(parts, sep) ==
    IF parts = <<>> THEN <<>>
    ELSE IF Len(parts) = 1 THEN parts[1]
    ELSE parts[1] \o <<sep>> \o str_join(Tail(parts), sep)

\* obj.get(part, fallback): only a mapping has the attribute 'get'
dict_get(obj, part, fallback) ==
    IF obj.t # "dict"
    THEN Raise("AttributeError", <<obj.t, "object has no attribute", "get">>)
    ELSE IF part \in DOMAIN obj.v THEN Return(obj.v[part])
    ELSE Return(fallback)

\* a variant of miner_fallback: the default stands in at every segment
miner_fallback_default(i, num, default) == default

\* fallback = {} if i < num else default
miner_fallback(i, num, default) ==
    IF i < num THEN PyDict(EmptyDict) ELSE default

RECURSIVE miner_loop(_, _, _, _)
\* the for loop of miner, from segment i on
miner_loop(obj, parts, i, default) ==
    IF i > Len(parts) THEN Return(obj)
    ELSE Only({IF got.exc # "none" THEN got
               ELSE miner_loop(got.value, parts, i + 1, default) :
               got \in {dict_get(obj, parts[i],
                                 miner_fallback(i, Len(parts), default))}})

miner(root, path, default) == miner_loop(root, str_split(path, "."), 1, default)

-----------------------------------------------------------------------------
(* Inputs of miner: dictionaries over the keys "a" and "b" that hold       *)
(* numbers, None, lists and dictionaries up to two levels deep; paths of   *)
(* one to three segments; the defaults None and "X".                       *)

KeyA == <<"a">>
KeyB == <<"b">>
KeyCd == <<"c", "d">>

MinerValues ==
    <<PyInt(5), PyNone, PyList(<<1, 2>>), PyDict(EmptyDict),
      PyDict([k \in {KeyB} |-> PyInt(5)]),
      PyDict([k \in {KeyB} |-> PyDict([j \in {KeyCd} |-> PyInt(7)])]),
      PyDict([k \in {KeyB} |-> PyList(<<1, 2>>)])>>

\* the shapes of the roots: which value each key present holds
MinerShapes ==
    UNION {[K -> 1..Len(MinerValues)] : K \in SUBSET {KeyA, KeyB}}

MinerRoot(f) == PyDict([k \in DOMAIN f |-> MinerValues[f[k]]])

MinerSegments == {<<>>, KeyA, KeyB, KeyCd}

MinerPaths == UNION {[1..n -> MinerSegments] : n \in 1..3}

MinerDefaults == <<PyNone, PyStr(<<"X">>)>>

MaxText == 7        \* longest text handed to trim

\* a variant of trim without its "if length < 5" branch
trim_ellipsis_always(text, length) ==
    IF length < 1
    THEN Raise("ValueError", <<"length must be positive, received", length>>)
    ELSE IF Len(text) > length
    THEN Return(Take(text, IF length > 3 THEN length - 3 ELSE 0) \o <<".", ".", ".">>)
    ELSE Return(text)

\* core.py trim(text, length)
trim(text, length) ==
    IF length < 1
    THEN Raise("ValueError", <<"length must be positive, received", length>>)
    ELSE IF length < 5 THEN Return(Take(text, length))
    ELSE IF Len(text) > length
    THEN Return(Take(text, length - 3) \o <<".", ".", ".">>)
    ELSE Return(text)

\* apsbss.py trim(text, length)
apsbss_trim(text, length) ==
    IF length < 1
    THEN Raise("ValueError", <<"length must be positive, received", length>>)
    ELSE IF length < 5 THEN Return(Take(text, length))
    ELSE IF Len(text) > length
    THEN Return(Take(text, length - 3) \o <<".", ".", ".">>)
    ELSE Return(text)

\* texts of letters and dots, lengths from -1 to one more than the longest
call_trim ==
    /\ last = Idle
    /\ \E n \in 0..MaxText, length \in (0 - 1)..(MaxText + 1) :
        \E text \in [1..n -> {"a", "."}] :
        last' = [op |-> "trim", text |-> text, length |-> length,
                 result |-> trim(text, length),
                 apsbss |-> apsbss_trim(text, length)]
    /\ UNCHANGED <<now, listRuns, ctor, bss_api, ss>>

call_miner ==
    /\ last = Idle
    /\ \E f \in MinerShapes, segments \in MinerPaths,
          d \in 1..Len(MinerDefaults) :
        last' = [op |-> "miner", root |-> MinerRoot(f), segments |-> segments,
                 path |-> str_join(segments, "."),
                 default |-> MinerDefaults[d],
                 result |-> miner(MinerRoot(f), str_join(segments, "."),
                                  MinerDefaults[d])]
    /\ UNCHANGED <<now, listRuns, ctor, bss_api, ss>>

InitCore ==
    /\ now = 0
    /\ listRuns = <<>>
    /\ ctor = [creds_file |-> NoFile, construct |-> "ok"]
    /\ bss_api = "DM"
    /\ ss = IS_SchedulingServer__init__
    /\ last = Idle

NextCore ==
    \/ call_miner
    \/ call_trim
    \/ Done

SpecCore == InitCore /\ [][NextCore]_vars

-----------------------------------------------------------------------------
(* Properties of core.py.                                                  *)

RECURSIVE PyEq(_, _)
\* equality of nested values
PyEq(a, b) ==
    /\ a.t = b.t
    /\ IF a.t = "dict"
       THEN /\ DOMAIN a.v = DOMAIN b.v
            /\ \A k \in DOMAIN a.v : PyEq(a.v[k], b.v[k])
       ELSE a.v = b.v

\* What the first n segments lead to from the root by plain indexing.
Absent == [t |-> "absent", v |-> None]
NoMapping == [t |-> "no mapping", v |-> None]

RECURSIVE Descend(_, _, _)
Descend(root, segments, n) ==
    IF n = 0 THEN root
    ELSE LET above == Descend(root, segments, n - 1)
         IN IF above.t \in {"absent", "no mapping"} THEN above
            ELSE IF above.t # "dict" THEN NoMapping
            ELSE IF segments[n] \in DOMAIN above.v THEN above.v[segments[n]]
            ELSE Absent

\* C11: miner follows the dotted path; a key absent at any segment yields
\* the default (an absent intermediate key counts as an empty mapping), a
\* value present at the last segment is returned, and an intermediate value
\* that is present but is no mapping raises instead of yielding the default.
C11_Miner ==
    last.op = "miner" =>
        LET n == Len(last.segments)
            end == Descend(last.root, last.segments, n)
        IN /\ end.t = "no mapping" <=> last.result.exc = "AttributeError"
           /\ end.t = "no mapping" <=> last.result.exc # "none"
           /\ end.t = "absent" =>
                /\ last.result.exc = "none"
                /\ PyEq(last.result.value, last.default)
           /\ end.t \notin {"absent", "no mapping"} =>
                /\ last.result.exc = "none"
                /\ PyEq(last.result.value, end)

\* miner({"a": [1, 2]}, "a.b", "X") raises; the key "a" absent from the root
\* of the same call would have given "X".
C11_Witness ==
    /\ last.op = "miner"
    /\ last.segments = <<KeyA, KeyB>>
    /\ DOMAIN last.root.v = {KeyA}
    /\ last.root.v[KeyA].t = "list"
    /\ last.default.t = "str"
    /\ last.result.exc = "AttributeError"

-----------------------------------------------------------------------------
(* Properties of Server._parse_runs_arg, Server.esafs and Server.proposal. *)

\* The run names of the catalog that precede name n.
EarlierRuns(n) == {m \in CatalogNames : RunRank(m) < RunRank(n)}

\* C12: Server._parse_runs_arg("past") (and "previous", "prior"), while a
\* run is current: when the catalog holds an earlier run the call returns
\* the set of exactly the one run name that precedes the current run, never
\* the current run nor a later one; when the current run is the earliest of
\* the catalog the call raises.
C12_PreviousRun ==
    (/\ last.op = "_parse_runs_arg"
     /\ last.runs.t = "str"
     /\ last.runs.v \in {"past", "previous", "prior"}
     /\ RunsContainingNow # {}) =>
        LET cur == Server_current_run.value
        IN IF EarlierRuns(cur) = {}
           THEN last.result.exc # "none"
           ELSE /\ last.result.exc = "none"
                /\ \E m \in EarlierRuns(cur) :
                    /\ last.result.value = {m}
                    /\ \A x \in EarlierRuns(cur) : RunRank(x) <= RunRank(m)

\* C12 witnesses: "previous" asked during the latest of three runs listed
\* in an order that is not the sorted one; and asked during the earliest.
C12_Witness ==
    /\ last.op = "_parse_runs_arg"
    /\ last.runs.t = "str"
    /\ last.runs.v = "previous"
    /\ RunsContainingNow # {}
    /\ Server_runs = <<"2020-3", "2021-1", "2020-2">>
    /\ Server_current_run.value = "2021-1"
    /\ last.result.exc = "none"
    /\ last.result.value = {"2020-3"}

C12_WitnessEarliest ==
    /\ last.op = "_parse_runs_arg"
    /\ last.runs.t = "str"
    /\ last.runs.v = "prior"
    /\ RunsContainingNow # {}
    /\ Cardinality(CatalogNames) = 3
    /\ Server_current_run.value = "2020-2"
    /\ last.result.exc = "IndexError"

\* The symbolic names that Server._parse_runs_arg resolves.
RunTokens ==
    {"current", "now", "", "past", "previous", "prior", "future", "next",
     "recent", "all"}

\* C13: Server._parse_runs_arg(runs): a string that is no symbolic name
\* comes back as the set of that one string; a list, set or tuple of strings
\* comes back as the set of its elements, whether or not the catalog knows
\* them; what is neither a string nor a list, set or tuple (an integer)
\* raises TypeError, and nothing of the backend has been read by then.
C13_ParseRunsArg ==
    last.op = "_parse_runs_arg" =>
        /\ (last.runs.t = "str" /\ last.runs.v \notin RunTokens) =>
            /\ last.result.exc = "none"
            /\ last.result.value = {last.runs.v}
        /\ last.runs.t \in {"list", "set", "tuple"} =>
            /\ last.result.exc = "none"
            /\ \A i \in 1..Len(last.runs.v) : last.runs.v[i] \in last.result.value
            /\ \A x \in last.result.value :
                \E i \in 1..Len(last.runs.v) : last.runs.v[i] = x
            /\ Cardinality(last.result.value) <= Len(last.runs.v)
        /\ last.runs.t \notin {"str", "list", "set", "tuple", "NoneType"} =>
            /\ last.result.exc = "TypeError"
            /\ last.reads = <<>>

\* C13 witness: an integer handed over while a run is current.
C13_Witness ==
    /\ last.op = "_parse_runs_arg"
    /\ last.runs.t = "int"
    /\ RunsContainingNow # {}
    /\ last.result.exc = "TypeError"
    /\ last.reads = <<>>

\* a tuple with a duplicate and a name that no catalog of the model holds
C13_WitnessTuple ==
    /\ last.op = "_parse_runs_arg"
    /\ last.runs.t = "tuple"
    /\ last.runs.v = <<"1999-1", "2020-3", "1999-1">>
    /\ last.result.value = {"1999-1", "2020-3"}

\* C14: Server.esafs(sector, run) with a run name that the catalog does not
\* hold raises RunNotFound, the message naming the run, and no ESAF listing
\* has been asked of the ESAF interface by then.
C14_RunNotFound ==
    (/\ last.op = "esafs"
     /\ ~Falsy(last.run)
     /\ last.run.t = "str"
     /\ last.run.v \notin CatalogNames) =>
        /\ last.result.exc = "RunNotFound"
        /\ last.result.msg = <<"Could not find run=", last.run.v>>
        /\ last.result.asked = <<>>

\* C14 witness: a run asked that a catalog of two other runs does not hold,
\* the listing upstream not being empty.
C14_Witness ==
    /\ last.op = "esafs"
    /\ last.run = PyStr("2020-3")
    /\ CatalogNames = {"2020-2", "2021-1"}
    /\ last.listing # <<>>
    /\ last.result.exc = "RunNotFound"
    /\ last.result.asked = <<>>

C15_WitnessFound ==
    /\ last.op = "proposal"
    /\ last.proposal_id = 2
    /\ DOMAIN last.proposals = {1, 2}
    /\ last.proposals[1] # last.proposals[2]
    /\ last.result.exc = "none"
    /\ last.result.value = last.proposals[2]

-----------------------------------------------------------------------------
(* bss_dm.py: ApsDmScheduleInterface.  The instance is its _cache: under   *)
(* "beamlines", "listRuns" and "runs" the list of nothing (no such key) or *)
(* of the one value cached, and under proposals the dicts cached by        *)
(* (beamline, run).  The DM API answers a call with a list or raises.      *)

ApsDmScheduleInterface__init__ ==
    [_cache |-> [beamlines |-> <<>>, listRuns |-> <<>>, runs |-> <<>>,
                 proposals |-> EmptyDict]]

DmOk(list) == [ok |-> TRUE, list |-> list]
DmRaises == [ok |-> FALSE, list |-> <<>>]

\* self.api.<api>(beamlineName=..., runName=...), as sent
DmCall(api, beamline, run) == [api |-> api, beamlineName |-> beamline, runName |-> run]

\* ApsDmScheduleInterface.beamlines
ApsDmScheduleInterface_beamlines(self, answer) ==
    IF self._cache.beamlines # <<>>
    THEN ISResult(self, <<>>, Return(self._cache.beamlines[1]))
    ELSE IF ~answer.ok
    THEN ISResult(self, <<DmCall("listBeamlines", "", "")>>,
                  Raise("DmException", <<>>))
    ELSE Only({ISResult([self EXCEPT !._cache.beamlines = <<names>>],
                        <<DmCall("listBeamlines", "", "")>>, Return(names)) :
               names \in {[i \in 1..Len(answer.list) |-> answer.list[i].name]}})

\* DM_BeamtimeProposal(prop): ProposalBase.__init__(self, raw, run) is
\* called without run
DM_BeamtimeProposal(prop) ==
    Raise("TypeError", <<"__init__() missing 1 required positional argument:", "run">>)

\* a variant of ApsDmScheduleInterface_proposals that does not look into
\* the cache
proposals_always_lists(self, beamline, run, answer) ==
    IF ~answer.ok
    THEN ISResult(self, <<DmCall("listProposals", beamline, run)>>,
                  Raise("DmException", <<>>))
    ELSE IF answer.list # <<>>
    THEN ISResult(self, <<DmCall("listProposals", beamline, run)>>,
                  DM_BeamtimeProposal(answer.list[1]))
    ELSE ISResult([self EXCEPT !._cache.proposals =
                                    DictSet(@, <<beamline, run>>, EmptyDict)],
                  <<DmCall("listProposals", beamline, run)>>,
                  Return(EmptyDict))

\* ApsDmScheduleInterface.proposals(beamline, run): the loop over the
\* listing ends at its first entry, where DM_BeamtimeProposal raises
ApsDmScheduleInterface_proposals(self, beamline, run, answer) ==
    IF <<beamline, run>> \in DOMAIN self._cache.proposals
    THEN ISResult(self, <<>>, Return(self._cache.proposals[<<beamline, run>>]))
    ELSE IF ~answer.ok
    THEN ISResult(self, <<DmCall("listProposals", beamline, run)>>,
                  Raise("DmException", <<>>))
    ELSE IF answer.list # <<>>
    THEN ISResult(self, <<DmCall("listProposals", beamline, run)>>,
                  DM_BeamtimeProposal(answer.list[1]))
    ELSE ISResult([self EXCEPT !._cache.proposals =
                                    DictSet(@, <<beamline, run>>, EmptyDict)],
                  <<DmCall("listProposals", beamline, run)>>,
                  Return(EmptyDict))

\* a variant of ApsDmScheduleInterface__runs that keeps an empty list when
\* the DM API raises
runs_caches_failure(self, answer) ==
    IF self._cache.listRuns # <<>>
    THEN ISResult(self, <<>>, Return(self._cache.listRuns[1]))
    ELSE IF ~answer.ok
    THEN ISResult([self EXCEPT !._cache.listRuns = <<(<<>>)>>],
                  <<DmCall("listRuns", "", "")>>, Raise("DmException", <<>>))
    ELSE ISResult([self EXCEPT !._cache.listRuns = <<answer.list>>],
                  <<DmCall("listRuns", "", "")>>, Return(answer.list))

\* ApsDmScheduleInterface._runs
ApsDmScheduleInterface__runs(self, answer) ==
    IF self._cache.listRuns # <<>>
    THEN ISResult(self, <<>>, Return(self._cache.listRuns[1]))
    ELSE IF ~answer.ok
    THEN ISResult(self, <<DmCall("listRuns", "", "")>>, Raise("DmException", <<>>))
    ELSE ISResult([self EXCEPT !._cache.listRuns = <<answer.list>>],
                  <<DmCall("listRuns", "", "")>>, Return(answer.list))

\* ApsDmScheduleInterface.runs
ApsDmScheduleInterface_runs(self, answer) ==
    IF self._cache.runs # <<>>
    THEN ISResult(self, <<>>, Return(self._cache.runs[1]))
    ELSE Only({IF r.exc # "none" THEN r
               ELSE Only({ISResult([r.self EXCEPT !._cache.runs = <<names>>],
                                   r.requests, Return(names)) :
                          names \in {[i \in 1..Len(r.value) |-> r.value[i].name]}}) :
               r \in {ApsDmScheduleInterface__runs(self, answer)}})

-----------------------------------------------------------------------------
(* The calls of one ApsDmScheduleInterface as actions.  What the DM API    *)
(* would answer is drawn anew at every call.                               *)

DmBeamlineAnswers ==
    {DmRaises, DmOk(<<>>), DmOk(<<[name |-> "9-ID-B,C"]>>),
     DmOk(<<[name |-> "9-ID-B,C"], [name |-> "12-ID-B"]>>)}

DmRunAnswers ==
    {DmRaises, DmOk(<<>>), DmOk(<<RunInfo("2020-3")>>),
     DmOk(<<RunInfo("2020-3"), RunInfo("2021-1")>>)}

DmProposalAnswers ==
    {DmRaises, DmOk(<<>>), DmOk(<<[id |-> 1]>>), DmOk(<<[id |-> 1], [id |-> 2]>>)}

\* the call made, the calls it sent to the DM API and what it came to
DmLast(op, beamline, run, c) ==
    [op |-> op, seq |-> NextSeq, beamline |-> beamline, run |-> run,
     requests |-> c.requests,
     result |-> [exc |-> c.exc, msg |-> c.msg, value |-> c.value]]

DM_beamlines ==
    /\ \E answer \in DmBeamlineAnswers :
        \E c \in {ApsDmScheduleInterface_beamlines(ss, answer)} :
           /\ ss' = c.self
           /\ last' = DmLast("beamlines", "", "", c)
    /\ UNCHANGED <<now, listRuns, ctor, bss_api>>

DM_proposals ==
    /\ \E beamline \in ISBeamlines, run \in Range(ISRuns),
          answer \in DmProposalAnswers :
        \E c \in {ApsDmScheduleInterface_proposals(ss, beamline, run, answer)} :
           /\ ss' = c.self
           /\ last' = DmLast("proposals", beamline, run, c)
    /\ UNCHANGED <<now, listRuns, ctor, bss_api>>

DM__runs ==
    /\ \E answer \in DmRunAnswers :
        \E c \in {ApsDmScheduleInterface__runs(ss, answer)} :
           /\ ss' = c.self
           /\ last' = DmLast("_runs", "", "", c)
    /\ UNCHANGED <<now, listRuns, ctor, bss_api>>

DM_runs ==
    /\ \E answer \in DmRunAnswers :
        \E c \in {ApsDmScheduleInterface_runs(ss, answer)} :
           /\ ss' = c.self
           /\ last' = DmLast("runs", "", "", c)
    /\ UNCHANGED <<now, listRuns, ctor, bss_api>>

InitDM ==
    /\ now = 0
    /\ listRuns = <<>>
    /\ ctor = [creds_file |-> NoFile, construct |-> "ok"]
    /\ bss_api = "DM"
    /\ ss = ApsDmScheduleInterface__init__
    /\ last = Idle

NextDM ==
    \/ DM_beamlines
    \/ DM_proposals
    \/ DM__runs
    \/ DM_runs

SpecDM == InitDM /\ [][NextDM]_vars

-----------------------------------------------------------------------------
(* Properties of ApsDmScheduleInterface.                                   *)

\* C16: on one ApsDmScheduleInterface, the beamline list, the raw run list
\* and the dict of proposals of each (beamline, run) are asked of the DM API
\* once by the call that populates the cache and kept from then on: what is
\* cached never changes; a call whose value is cached sends nothing upstream
\* and returns the cached value, whatever other calls came in between; and a
\* call that succeeds on a value not yet cached sends one call upstream and
\* leaves what it returns in the cache.
C16_CachedForLifetime ==
    [][LET cache == ss._cache
           key == <<last'.beamline, last'.run>>
       IN /\ cache.beamlines # <<>> => ss'._cache.beamlines = cache.beamlines
          /\ cache.listRuns # <<>> => ss'._cache.listRuns = cache.listRuns
          /\ \A k \in DOMAIN cache.proposals :
                /\ k \in DOMAIN ss'._cache.proposals
                /\ ss'._cache.proposals[k] = cache.proposals[k]
          /\ (last'.op = "beamlines" /\ cache.beamlines # <<>>) =>
                /\ last'.requests = <<>>
                /\ last'.result = Return(cache.beamlines[1])
          /\ (last'.op = "_runs" /\ cache.listRuns # <<>>) =>
                /\ last'.requests = <<>>
                /\ last'.result = Return(cache.listRuns[1])
          /\ (last'.op = "proposals" /\ key \in DOMAIN cache.proposals) =>
                /\ last'.requests = <<>>
                /\ last'.result = Return(cache.proposals[key])
          /\ (last'.op = "beamlines" /\ cache.beamlines = <<>>
                /\ last'.result.exc = "none") =>
                /\ last'.requests = <<DmCall("listBeamlines", "", "")>>
                /\ ss'._cache.beamlines = <<last'.result.value>>
          /\ (last'.op = "_runs" /\ cache.listRuns = <<>>
                /\ last'.result.exc = "none") =>
                /\ last'.requests = <<DmCall("listRuns", "", "")>>
                /\ ss'._cache.listRuns = <<last'.result.value>>
          /\ (last'.op = "proposals" /\ key \notin DOMAIN cache.proposals
                /\ last'.result.exc = "none") =>
                /\ last'.requests = <<DmCall("listProposals", key[1], key[2])>>
                /\ key \in DOMAIN ss'._cache.proposals
                /\ ss'._cache.proposals[key] = last'.result.value
      ]_vars

\* C16 witness: proposals of a pair answered from the cache, with nothing
\* sent upstream, on an instance that has cached three other pairs, the
\* beamlines and the runs as well.
C16_Witness ==
    /\ last.op = "proposals"
    /\ last.requests = <<>>
    /\ last.result.exc = "none"
    /\ Cardinality(DOMAIN ss._cache.proposals) = 4
    /\ ss._cache.beamlines # <<>>
    /\ ss._cache.listRuns # <<>>

-----------------------------------------------------------------------------
(* Properties of the mapping of Server.current_esafs_and_proposals.        *)

\* The nruns most recent runs: the current run and the runs before it, the
\* latest first, as a set.
MostRecentRuns(nruns) ==
    LET upto == {n \in CatalogNames : RunRank(n) <= RunRank(Server_current_run.value)}
    IN {n \in upto : Cardinality({x \in upto : RunRank(x) > RunRank(n)}) < nruns}

-----------------------------------------------------------------------------
(* Server.current_esafs_and_proposals on records whose ID recurs: ESAF 1   *)
(* listed up to twice in 2020 and once in 2021, proposal 1 under each run, *)
(* every record with the badge 10 or the badge 20.                         *)

RecurringEsafs(runs) ==
    LET one == {[esafId |-> 1,
                 experimentStartDate |-> RunInfo(r).startTime + LocalUtcOffset,
                 experimentUsers |-> Users(<<b>>)] : r \in runs, b \in {10, 20}}
    IN {<<>>} \cup {<<e>> : e \in one}
          \cup IF Cardinality(runs) > 1 THEN {<<e, f>> : e \in one, f \in one}
               ELSE {}

RecurringProposals ==
    {<<>>} \cup {<<[proposal_id |-> 1, _users |-> Users(<<b>>)]>> : b \in {10, 20}}

current_esafs_and_proposals_recurring ==
    /\ last = Idle
    /\ \E nruns \in 0..MaxNruns,
          e20 \in RecurringEsafs({"2020-2", "2020-3"}),
          e21 \in RecurringEsafs({"2021-1"}),
          proposals \in [Range(RunNames) -> RecurringProposals] :
        \E listing \in {[y \in Years |-> IF y = 2020 THEN e20 ELSE e21]} :
        last' = [op |-> "current_esafs_and_proposals", beamline |-> "9-ID-B,C",
                 nruns |-> nruns, listing |-> listing, proposals |-> proposals,
                 result |-> Server_current_esafs_and_proposals(
                                "9-ID-B,C", nruns, listing, proposals)]
    /\ UNCHANGED <<now, listRuns, ctor, bss_api, ss>>

NextRecurring ==
    \/ current_esafs_and_proposals_recurring
    \/ Done

SpecRecurring == InitMatch /\ [][NextRecurring]_vars

\* The records of the oldest of the given runs that holds any: of ESAF 1
\* (the last listed of that run) and of proposal 1.
EsafsOfRun(r) ==
    {j \in 1..Len(last.listing[RunYear(r)]) :
        LET t == iso2dt(last.listing[RunYear(r)][j].experimentStartDate)
        IN CatalogRun(r).startTime <= t /\ t <= CatalogRun(r).endTime}

LastSeenEsaf(recent) ==
    LET r == CHOOSE r \in recent :
                /\ EsafsOfRun(r) # {}
                /\ \A x \in recent : EsafsOfRun(x) # {} => RunRank(r) <= RunRank(x)
        j == CHOOSE j \in EsafsOfRun(r) : \A k \in EsafsOfRun(r) : k <= j
    IN last.listing[RunYear(r)][j]

LastSeenProposal(recent) ==
    LET r == CHOOSE r \in recent :
                /\ last.proposals[r] # <<>>
                /\ \A x \in recent :
                      last.proposals[x] # <<>> => RunRank(r) <= RunRank(x)
    IN last.proposals[r][1]

\* C18: Server.current_esafs_and_proposals keeps one record per ID, the one
\* seen last while the runs of recent_runs(nruns) are gone through from the
\* newest to the oldest: of an ESAF or proposal found under several of these
\* runs, the record of the oldest run is the one whose badges are matched.
C18_LastSeenWins ==
    (last.op = "current_esafs_and_proposals" /\ last.result.exc = "none") =>
        LET recent == MostRecentRuns(last.nruns)
            E == last.result.esafs
            P == last.result.proposals
            anyE == \E r \in recent : EsafsOfRun(r) # {}
            anyP == \E r \in recent : last.proposals[r] # <<>>
        IN /\ DOMAIN E = IF anyE THEN {1} ELSE {}
           /\ DOMAIN P = IF anyP THEN {1} ELSE {}
           /\ anyE => E[1] = LastSeenEsaf(recent)
           /\ anyP => P[1] = LastSeenProposal(recent)
           /\ 1 \in DOMAIN last.result.value <=>
                /\ anyE
                /\ anyP
                /\ LastSeenEsaf(recent).experimentUsers
                      = LastSeenProposal(recent)._users

\* C18 witness: proposal 1 has badge 10 under the newest run and badge 20
\* under the oldest; the one ESAF has badge 10 and is not matched.
C18_Witness ==
    /\ last.op = "current_esafs_and_proposals"
    /\ last.result.exc = "none"
    /\ last.nruns = 3
    /\ Server_current_run.value = "2021-1"
    /\ last.proposals["2021-1"] = <<[proposal_id |-> 1, _users |-> Users(<<10>>)]>>
    /\ last.proposals["2020-2"] = <<[proposal_id |-> 1, _users |-> Users(<<20>>)]>>
    /\ Len(last.listing[2020]) = 1
    /\ last.listing[2021] = <<>>
    /\ last.listing[2020][1].experimentUsers = Users(<<10>>)
    /\ DOMAIN last.result.esafs = {1}
    /\ DOMAIN last.result.value = {}

-----------------------------------------------------------------------------
(* core.py ProposalBase and bss_is.py IS_BeamtimeRequest: one record.  The *)
(* instance is its class, its raw dictionary and, for ProposalBase, what   *)
(* _cache holds under "PI" (the list of nothing or of the value).  A       *)
(* timestamp of the raw data is None or a string: well formed or not,      *)
(* with the local time it spells and the UTC offset it spells, if any.     *)

MaxUsers == 3       \* longest list of experimenters

\* a user of the raw data; piFlag is None or a string
RawUser(name, piFlag) == [t |-> "User", name |-> name, piFlag |-> piFlag]

\* the values of piFlag: None, "", "Y", "N", "y"
PiFlags ==
    {[t |-> "NoneType", v |-> <<>>], [t |-> "str", v |-> <<>>],
     [t |-> "str", v |-> <<"Y">>], [t |-> "str", v |-> <<"N">>],
     [t |-> "str", v |-> <<"y">>]}

\* str.lower() of one character
str_lower(c) == CASE c = "Y" -> "y" [] c = "N" -> "n" [] OTHER -> c

\* User.is_pi: (self._raw.get("piFlag") or "n").lower()[0] == "y"
User_is_pi(user) ==
    LET flag == IF user.piFlag.t = "NoneType" \/ user.piFlag.v = <<>>
                THEN <<"n">> ELSE user.piFlag.v
    IN str_lower(flag[1]) = "y"

\* obj[key]
dict_getitem(obj, key) ==
    IF key \in DOMAIN obj.v THEN Return(obj.v[key])
    ELSE Raise("KeyError", <<key>>)

\* ProposalBase.__init__(raw, run) and IS_BeamtimeRequest.__init__(raw)
ProposalBase__init__(raw) ==
    [class |-> "ProposalBase", _raw |-> raw, _cache |-> [PI |-> <<>>]]
IS_BeamtimeRequest__init__(raw) ==
    [class |-> "IS_BeamtimeRequest", _raw |-> raw, _cache |-> [PI |-> <<>>]]

\* ProposalBase._users and IS_BeamtimeRequest._users
Record__users(self) ==
    IF self.class = "ProposalBase"
    THEN Only({IF r.exc # "none" THEN r ELSE Return(r.value.v) :
               r \in {dict_getitem(self._raw, "experimenters")}})
    ELSE Only({IF r.exc # "none" THEN r ELSE Return(r.value.v) :
               r \in {miner_loop(self._raw,
                                 <<"beamtime", "proposal", "experimenters">>, 1,
                                 PyList(<<>>))}})

RECURSIVE pi_loop_no_break(_, _, _, _)
\* a variant of pi_loop that does not leave the loop at the first user
\* flagged
pi_loop_no_break(users, i, default, found) ==
    IF i > Len(users) THEN [found |-> found, default |-> default]
    ELSE pi_loop_no_break(users, i + 1,
                          IF default.t = "NoneType" THEN users[i] ELSE default,
                          IF User_is_pi(users[i]) THEN users[i] ELSE found)

RECURSIVE pi_loop(_, _, _, _)
\* "for user in self._users" of _pi, from user i on: the user found and the
\* default
pi_loop(users, i, default, found) ==
    IF i > Len(users) THEN [found |-> found, default |-> default]
    ELSE IF User_is_pi(users[i])
    THEN [found |-> users[i],
          default |-> IF default.t = "NoneType" THEN users[i] ELSE default]
    ELSE pi_loop(users, i + 1,
                 IF default.t = "NoneType" THEN users[i] ELSE default, found)

\* "found or default" (and "return user ... return default")
found_or_default(s) == IF s.found.t # "NoneType" THEN s.found ELSE s.default

\* ProposalBase._pi
ProposalBase__pi(self) ==
    IF self._cache.PI # <<>> THEN ISResult(self, <<>>, Return(self._cache.PI[1]))
    ELSE Only({IF users.exc # "none" THEN ISResult(self, <<>>, users)
               ELSE Only({ISResult([self EXCEPT !._cache.PI = <<pi>>], <<>>,
                                   Return(pi)) :
                          pi \in {found_or_default(
                                      pi_loop(users.value, 1, PyNone, PyNone))}}) :
               users \in {Record__users(self)}})

\* IS_BeamtimeRequest._pi
IS_BeamtimeRequest__pi(self) ==
    Only({IF users.exc # "none" THEN ISResult(self, <<>>, users)
          ELSE ISResult(self, <<>>,
                        Return(found_or_default(
                                   pi_loop(users.value, 1, PyNone, PyNone)))) :
          users \in {Record__users(self)}})

\* a timestamp string, by what datetime.datetime.fromisoformat makes of it:
\* whether it is well formed, the local time and the UTC offset it spells
\* (offset: the list of nothing or of the offset)
IsoStr(ok, local, offset) ==
    [t |-> "str", v |-> [ok |-> ok, local |-> local, offset |-> offset]]

\* datetime.datetime.fromisoformat(iso)
fromisoformat(iso) ==
    IF iso.t # "str"
    THEN Raise("TypeError", <<"fromisoformat: argument must be str">>)
    ELSE IF ~iso.v.ok THEN Raise("ValueError", <<"Invalid isoformat string">>)
    ELSE Return([local |-> iso.v.local, offset |-> iso.v.offset])

\* a <= b of two datetime objects
datetime_le(a, b) ==
    IF (a.offset = <<>>) # (b.offset = <<>>)
    THEN Raise("TypeError",
               <<"can't compare offset-naive and offset-aware datetimes">>)
    ELSE Return((a.local - (IF a.offset = <<>> THEN 0 ELSE a.offset[1]))
                    <= (b.local - (IF b.offset = <<>> THEN 0 ELSE b.offset[1])))

\* datetime.datetime.now().astimezone() at the instant n
datetime_now(n) == [local |-> n + LocalUtcOffset, offset |-> <<LocalUtcOffset>>]

\* ProposalBase.startTime, .endTime and IS_BeamtimeRequest.startTime,
\* .endTime; which is "startTime" or "endTime"
Record_time(self, which) ==
    IF self.class = "ProposalBase"
    THEN Only({IF iso.exc # "none" THEN iso ELSE fromisoformat(iso.value) :
               iso \in {dict_getitem(self._raw, which)}})
    ELSE Only({IF iso.exc # "none" THEN iso
               ELSE IF iso.value.t # "NoneType" THEN fromisoformat(iso.value)
               ELSE Only({IF run.exc # "none" THEN run
                          ELSE fromisoformat(run.value) :
                          run \in {miner_loop(self._raw, <<"run", which>>, 1,
                                              IsoStr(FALSE, 0, <<>>))}}) :
               iso \in {miner_loop(self._raw, <<"activity", which>>, 1, PyNone)}})

\* self.startTime <= now <= self.endTime: endTime is not evaluated when
\* the first comparison is false
chained_le(self, n) ==
    Only({IF start.exc # "none" THEN start
          ELSE Only({IF first.exc # "none" \/ ~first.value THEN first
                     ELSE Only({IF end.exc # "none" THEN end
                                ELSE datetime_le(datetime_now(n), end.value) :
                                end \in {Record_time(self, "endTime")}}) :
                     first \in {datetime_le(start.value, datetime_now(n))}}) :
          start \in {Record_time(self, "startTime")}})

\* the exceptions that current catches: "except Exception" in
\* ProposalBase, "except ValueError" in IS_BeamtimeRequest
current_catches(class, exc) ==
    IF class = "ProposalBase" THEN TRUE ELSE exc = "ValueError"

\* ProposalBase.current and IS_BeamtimeRequest.current at the instant n
Record_current(self, n) ==
    Only({IF r.exc # "none" /\ current_catches(self.class, r.exc)
          THEN Return(FALSE) ELSE r :
          r \in {chained_le(self, n)}})

-----------------------------------------------------------------------------
(* One record and the calls on it.                                         *)

\* lists of up to MaxUsers users, named by their place in the list
UserLists ==
    UNION {{[i \in 1..n |-> RawUser(i, f[i])] : f \in [1..n -> PiFlags]} :
            n \in 0..MaxUsers}

\* {"experimenters": users} and
\* {"beamtime": {"proposal": {"experimenters": users}}}
RawProposal(users) == PyDict([k \in {"experimenters"} |-> PyList(users)])
RawBeamtimeRequest(users) ==
    PyDict([k \in {"beamtime"} |->
        PyDict([j \in {"proposal"} |->
            PyDict([i \in {"experimenters"} |-> PyList(users)])])])

\* the timestamps of the raw data: 1 None, 2 a string that is no
\* timestamp, 3 a timestamp without UTC offset, 4 a timestamp with one
TimeLeaf(i, local) ==
    CASE i = 1 -> PyNone
      [] i = 2 -> IsoStr(FALSE, 0, <<>>)
      [] i = 3 -> IsoStr(TRUE, local, <<>>)
      [] i = 4 -> IsoStr(TRUE, local + LocalUtcOffset, <<LocalUtcOffset>>)

\* {"startTime": ..., "endTime": ...} from instant 2 to instant 6; key i or
\* j is left out when it is 0
RawTimes(i, j) ==
    PyDict([k \in (IF i > 0 THEN {"startTime"} ELSE {})
                    \cup (IF j > 0 THEN {"endTime"} ELSE {}) |->
                IF k = "startTime" THEN TimeLeaf(i, 2) ELSE TimeLeaf(j, 6)])

\* the raw data of a ProposalBase with these timestamps, and of an
\* IS_BeamtimeRequest with them under "activity" (when there is one) and
\* with those of the run, from instant 1 to instant 7, under "run" (when
\* there is one)
RawProposalTimes(i, j) ==
    PyDict([k \in DOMAIN RawTimes(i, j).v \cup {"experimenters"} |->
                IF k = "experimenters" THEN PyList(<<>>) ELSE RawTimes(i, j).v[k]])
RawBeamtimeRequestTimes(activity, i, j, run) ==
    PyDict([k \in (IF activity THEN {"activity"} ELSE {})
                    \cup (IF run THEN {"run"} ELSE {}) |->
                IF k = "activity" THEN RawTimes(i, j)
                ELSE PyDict([w \in {"startTime", "endTime"} |->
                                IF w = "startTime" THEN TimeLeaf(4, 1)
                                ELSE TimeLeaf(4, 7)])])

Record_current_call ==
    /\ \E c \in {Record_current(ss, now)} :
        last' = [op |-> "current", seq |-> NextSeq, memo |-> FALSE, result |-> c]
    /\ UNCHANGED <<now, listRuns, ctor, bss_api, ss>>

Record__pi ==
    /\ \E c \in {IF ss.class = "ProposalBase" THEN ProposalBase__pi(ss)
                 ELSE IS_BeamtimeRequest__pi(ss)} :
        /\ ss' = c.self
        /\ last' = [op |-> "_pi", seq |-> NextSeq,
                    memo |-> ss._cache.PI # <<>>,
                    result |-> [exc |-> c.exc, msg |-> c.msg, value |-> c.value]]
    /\ UNCHANGED <<now, listRuns, ctor, bss_api>>

InitRecord ==
    /\ now \in Times
    /\ listRuns = <<>>
    /\ ctor = [creds_file |-> NoFile, construct |-> "ok"]
    /\ bss_api = "DM"
    /\ \E users \in UserLists :
        \/ ss = ProposalBase__init__(RawProposal(users))
        \/ ss = IS_BeamtimeRequest__init__(RawBeamtimeRequest(users))
        \/ /\ users = <<>>
           /\ \E i, j \in 0..4, activity, run \in BOOLEAN :
                \/ ss = ProposalBase__init__(RawProposalTimes(i, j))
                \/ ss = IS_BeamtimeRequest__init__(
                            RawBeamtimeRequestTimes(activity, i, j, run))
        \/ users = <<>> /\ ss = ProposalBase__init__(PyDict(EmptyDict))
    /\ last = Idle

NextRecord ==
    \/ Record__pi
    \/ Record_current_call

SpecRecord == InitRecord /\ [][NextRecord]_vars

-----------------------------------------------------------------------------
(* Properties of a record.                                                 *)

\* the list of experimenters of the record, the empty list when the raw
\* data of an IS_BeamtimeRequest has none
Experimenters ==
    IF ss.class = "ProposalBase" THEN ss._raw.v["experimenters"].v
    ELSE IF "beamtime" \in DOMAIN ss._raw.v
    THEN ss._raw.v["beamtime"].v["proposal"].v["experimenters"].v
    ELSE <<>>

Flagged(user) ==
    /\ user.piFlag.t = "str"
    /\ user.piFlag.v # <<>>
    /\ user.piFlag.v[1] \in {"y", "Y"}

\* C19: _pi of a record whose raw data lists its experimenters returns the
\* first user of the list whose is_pi flag is true, the first user when none
\* is flagged, and None when the list is empty; ProposalBase keeps the value
\* of its first computation under _cache["PI"] and returns it from there on
\* later calls, and what it keeps is what the list gives.
C19_PrincipalInvestigator ==
    LET users == Experimenters
        flagged == {i \in 1..Len(users) : Flagged(users[i])}
        expected == IF flagged # {}
                    THEN users[CHOOSE i \in flagged : \A j \in flagged : i <= j]
                    ELSE IF users # <<>> THEN users[1] ELSE PyNone
    IN (ss.class = "IS_BeamtimeRequest" \/ "experimenters" \in DOMAIN ss._raw.v) =>
        /\ last.op = "_pi" =>
            /\ last.result.exc = "none"
            /\ last.result.value = expected
            /\ ss.class = "ProposalBase" => ss._cache.PI = <<last.result.value>>
            /\ last.memo => ss.class = "ProposalBase"
        /\ ss._cache.PI # <<>> => ss._cache.PI = <<expected>>

\* C19 witness: the second _pi of a ProposalBase, answered from _cache, of
\* three users of whom the second and the third are flagged.
C19_Witness ==
    /\ last.op = "_pi"
    /\ last.memo
    /\ ss.class = "ProposalBase"
    /\ "experimenters" \in DOMAIN ss._raw.v
    /\ Len(Experimenters) = 3
    /\ ~Flagged(Experimenters[1])
    /\ Flagged(Experimenters[2])
    /\ Flagged(Experimenters[3])
    /\ last.result.value = Experimenters[2]

\* The timestamp that a record goes by (the list of it, or of nothing when
\* the raw data has none): of a ProposalBase the one of its raw data, of an
\* IS_BeamtimeRequest the one of its activity or else the one of its run.
TimestampOf(which) ==
    IF ss.class = "ProposalBase"
    THEN IF which \in DOMAIN ss._raw.v THEN <<ss._raw.v[which]>> ELSE <<>>
    ELSE IF /\ "activity" \in DOMAIN ss._raw.v
            /\ which \in DOMAIN ss._raw.v["activity"].v
            /\ ss._raw.v["activity"].v[which].t # "NoneType"
    THEN <<ss._raw.v["activity"].v[which]>>
    ELSE IF "run" \in DOMAIN ss._raw.v THEN <<ss._raw.v["run"].v[which]>>
    ELSE <<>>

\* the timestamp is there, is well formed and spells its UTC offset, so
\* that it can be compared with now
Determined(ts) ==
    /\ Len(ts) = 1
    /\ ts[1].t = "str"
    /\ ts[1].v.ok
    /\ ts[1].v.offset # <<>>

InstantOf(ts) == ts[1].v.local - ts[1].v.offset[1]

\* startTime <= now <= endTime, both determined
WithinTimes ==
    /\ Determined(TimestampOf("startTime"))
    /\ Determined(TimestampOf("endTime"))
    /\ InstantOf(TimestampOf("startTime")) <= now
    /\ now <= InstantOf(TimestampOf("endTime"))

\* C20: current of a record, ProposalBase or IS_BeamtimeRequest, never
\* raises: it is true exactly when startTime <= now <= endTime, and false
\* whenever a timestamp is missing, is no timestamp or cannot be compared
\* with now.
C20_CurrentFailsOpen ==
    last.op = "current" =>
        /\ last.result.exc = "none"
        /\ last.result.value <=> WithinTimes

\* C20 on ProposalBase alone, whose current catches every Exception.
C20_ProposalBaseFailsOpen ==
    (last.op = "current" /\ ss.class = "ProposalBase") =>
        /\ last.result.exc = "none"
        /\ last.result.value <=> WithinTimes

\* C20 on IS_BeamtimeRequest as the code has it: current raises TypeError
\* when a timestamp it reaches is None or spells no UTC offset, and is
\* otherwise as claimed.
C20_BeamtimeRequestRaises ==
    (last.op = "current" /\ ss.class = "IS_BeamtimeRequest") =>
        /\ last.result.exc \in {"none", "TypeError"}
        /\ last.result.exc = "none" => (last.result.value <=> WithinTimes)
        /\ last.result.exc = "TypeError" => ~WithinTimes

\* current of an IS_BeamtimeRequest raising on a startTime without offset
C20_Raised ==
    /\ last.op = "current"
    /\ ss.class = "IS_BeamtimeRequest"
    /\ last.result.exc = "TypeError"
    /\ Len(TimestampOf("startTime")) = 1
    /\ TimestampOf("startTime")[1].t = "str"
    /\ TimestampOf("startTime")[1].v.ok

-----------------------------------------------------------------------------
(* Properties of trim.                                                     *)

\* C21: trim(text, length): for length >= 5 the result has at most length
\* characters, is the text itself when the text is no longer than length
\* and otherwise its first length-3 characters followed by "..."; for
\* 1 <= length < 5 it is the first length characters of the text, without
\* ellipsis; for length < 1 the call raises ValueError.  The copy in
\* apsbss.py comes to the same as the one in core.py.
C21_Trim ==
    last.op = "trim" =>
        LET text == last.text
            length == last.length
            r == last.result
        IN /\ last.apsbss = r
           /\ length < 1 => r.exc = "ValueError"
           /\ length >= 1 => r.exc = "none"
           /\ (length >= 1 /\ length < 5) =>
                /\ Len(r.value) = IF Len(text) < length THEN Len(text) ELSE length
                /\ \A i \in 1..Len(r.value) : r.value[i] = text[i]
           /\ length >= 5 =>
                /\ Len(r.value) <= length
                /\ Len(text) <= length => r.value = text
                /\ Len(text) > length =>
                    /\ Len(r.value) = length
                    /\ \A i \in 1..(length - 3) : r.value[i] = text[i]
                    /\ \A i \in (length - 2)..length : r.value[i] = "."

\* C21 witnesses: a text of seven letters trimmed to five, and to four.
C21_Witness ==
    /\ last.op = "trim"
    /\ last.text = <<"a", "a", "a", "a", "a", "a", "a">>
    /\ last.length = 5
    /\ last.result.value = <<"a", "a", ".", ".", ".">>

C21_WitnessShort ==
    /\ last.op = "trim"
    /\ last.text = <<"a", "a", "a", "a", "a", "a", "a">>
    /\ last.length = 4
    /\ last.result.value = <<"a", "a", "a", "a">>


-----------------------------------------------------------------------------
(* The sector sent upstream: Server.esafs of server_interface.py and of    *)
(* servers.py called with every integer sector of one or two digits, every *)
(* sector of one digit character and some of two, on the whole catalog.    *)
(* Server.get_proposal of servers.py is called beside them.                *)

\* the k-th sector argument: the integers 0..99, then "0".."9", then
\* "00".."09"
SectorArg(k) ==
    IF k < 100 THEN PyInt(k)
    ELSE IF k < 110 THEN PyStr(<<DigitChars[k - 99]>>)
    ELSE PyStr(<<"0", DigitChars[k - 109]>>)

esafs_sector ==
    /\ last = Idle
    /\ \E k \in 0..119, run \in RunArgs,
          listing \in {l \in EsafListings : Len(l) <= 1} :
        last' = [op |-> "esafs", sector |-> SectorArg(k), run |-> run,
                 listing |-> listing,
                 result |-> Server_esafs(SectorArg(k), run,
                                         [y \in Years |-> listing]),
                 servers |-> servers_Server_esafs(SectorArg(k), run,
                                         [y \in Years |-> listing])]
    /\ UNCHANGED <<now, listRuns, ctor, bss_api, ss>>

\* str(proposal_id)
str_of(x) == IF x.t = "int" THEN PyStr(Decimal(x.v)) ELSE x

\* d.get(key) of a dict given as the list of its items: a key of one type
\* is no key of another
items_get(items, key) ==
    IF \E i \in 1..Len(items) : PyEq(items[i].key, key)
    THEN items[CHOOSE i \in 1..Len(items) : PyEq(items[i].key, key)].value
    ELSE PyNone

\* servers.py Server.get_proposal(proposal_id, beamline, run); proposals is
\* what self.proposals(beamline, run) returns
servers_Server_get_proposal(proposal_id, beamline, run, proposals) ==
    Only({IF found.t = "NoneType"
          THEN Raise("ProposalNotFound", <<key.v, beamline, run>>)
          ELSE Return(found) :
          key \in {str_of(proposal_id)},
          found \in {items_get(proposals, str_of(proposal_id))}})

\* the proposals of the beamline and run have the IDs ids, which the dict
\* is keyed by as integers or as their decimal strings; the ID asked is
\* passed as an integer or as its decimal string
servers_get_proposal ==
    /\ last = Idle
    /\ \E number \in 1..3, ids \in SUBSET {1, 2},
          passed \in {"int", "str"}, keyed \in {"int", "str"} :
        last' = [op |-> "get_proposal", number |-> number, passed |-> passed,
                 ids |-> ids, keyed |-> keyed,
                 result |-> servers_Server_get_proposal(
                    IF passed = "int" THEN PyInt(number)
                    ELSE PyStr(Decimal(number)),
                    "9-ID-B,C", "2020-3",
                    [i \in 1..Cardinality(ids) |->
                        [key |-> IF keyed = "int" THEN PyInt(sorted_set(ids)[i])
                                 ELSE PyStr(Decimal(sorted_set(ids)[i])),
                         value |-> PyDict([id |-> sorted_set(ids)[i]])]])]
    /\ UNCHANGED <<now, listRuns, ctor, bss_api, ss>>

InitSector ==
    /\ now = RunInfo("2020-3").endTime
    /\ listRuns = [i \in 1..Len(RunNames) |-> RunInfo(RunNames[i])]
    /\ InitWith([creds_file |-> NoFile, construct |-> "ok"])

NextSector ==
    \/ esafs_sector
    \/ servers_get_proposal
    \/ Done

SpecSector == InitSector /\ [][NextSector]_vars

\* the two characters the sector of the call is to be sent as
TwoDigits ==
    IF last.sector.t = "int"
    THEN <<DigitChars[(last.sector.v \div 10) + 1],
           DigitChars[(last.sector.v % 10) + 1]>>
    ELSE IF Len(last.sector.v) = 1 THEN <<"0">> \o last.sector.v
    ELSE last.sector.v

\* C22: Server.esafs sends the sector upstream as two characters: an integer
\* from 0 to 99 as its two decimal digits, a string of one character with
\* "0" before it; so esafs(9, run), esafs("9", run) and esafs("09", run)
\* ask for sector "09", and each call returns what the call with the
\* two-character sector returns.  The copy in servers.py does the same.
C22_SectorNormalised ==
    last.op = "esafs" =>
        LET listEsafs == [y \in Years |-> last.listing]
        IN /\ Len(TwoDigits) = 2
           /\ \A k \in 1..Len(last.result.asked) :
                last.result.asked[k].sector = TwoDigits
           /\ \A k \in 1..Len(last.servers.asked) :
                last.servers.asked[k].sector = TwoDigits
           /\ last.result = Server_esafs(PyStr(TwoDigits), last.run, listEsafs)
           /\ last.servers
                = servers_Server_esafs(PyStr(TwoDigits), last.run, listEsafs)

\* C22 witnesses: the integer 9, and the string "9", are sent as "09" by
\* both copies and an ESAF comes back.
C22_Witness ==
    /\ last.op = "esafs"
    /\ last.sector.t = "int" /\ last.sector.v = 9
    /\ Len(last.result.asked) = 1
    /\ last.result.asked[1].sector = <<"0", "9">>
    /\ Len(last.servers.asked) = 1
    /\ last.servers.asked[1].sector = <<"0", "9">>
    /\ last.result.exc = "none" /\ last.result.value # <<>>

C22_WitnessString ==
    /\ last.op = "esafs"
    /\ last.sector.t = "str" /\ last.sector.v = <<"9">>
    /\ Len(last.result.asked) = 1
    /\ last.result.asked[1].sector = <<"0", "9">>
    /\ last.result.exc = "none" /\ last.result.value # <<>>

-----------------------------------------------------------------------------
(* Two adapters of one class side by side.  A dict that the code changes   *)
(* in place (self._cache[key] = ...) is an object of its own: ss.heap is   *)
(* the list of these objects and the _cache of an instance of ss.objs is   *)
(* the position of its dict in it.  What an instance rebinds               *)
(* (self._proposals = {}, self._beamline = ...) is kept in the instance.   *)

\* a variant of dict_new where the dict is made once, with the class
dict_new_shared(heap) == 1

\* {} : a new dict object
dict_new(heap) == Len(heap) + 1

\* cls(): __init__ binds self._cache to a new dict
construct(s, init) ==
    [heap |-> Append(s.heap, init._cache),
     objs |-> Append(s.objs, [init EXCEPT !._cache = dict_new(s.heap)])]

\* self as the methods read it
deref(s, i) == [s.objs[i] EXCEPT !._cache = s.heap[s.objs[i]._cache]]

\* self as a method leaves it
store(s, i, self) ==
    [heap |-> [s.heap EXCEPT ![s.objs[i]._cache] = self._cache],
     objs |-> [s.objs EXCEPT ![i] = [self EXCEPT !._cache = s.objs[i]._cache]]]

PairLast(op, i, beamline, run, c) ==
    [op |-> op, seq |-> NextSeq, inst |-> i, beamline |-> beamline,
     run |-> run, requests |-> c.requests,
     result |-> [exc |-> c.exc, msg |-> c.msg, value |-> c.value]]

Pair_DM_beamlines ==
    /\ bss_api = "DM"
    /\ \E i \in 1..Len(ss.objs),
          answer \in {DmRaises, DmOk(<<[name |-> "9-ID-B,C"]>>)} :
        \E c \in {ApsDmScheduleInterface_beamlines(deref(ss, i), answer)} :
           /\ ss' = store(ss, i, c.self)
           /\ last' = PairLast("beamlines", i, "", "", c)
    /\ UNCHANGED <<now, listRuns, ctor, bss_api>>

Pair_DM_runs ==
    /\ bss_api = "DM"
    /\ \E i \in 1..Len(ss.objs),
          answer \in {DmRaises, DmOk(<<RunInfo("2020-3")>>)} :
        \E c \in {ApsDmScheduleInterface_runs(deref(ss, i), answer)} :
           /\ ss' = store(ss, i, c.self)
           /\ last' = PairLast("runs", i, "", "", c)
    /\ UNCHANGED <<now, listRuns, ctor, bss_api>>

Pair_DM_proposals ==
    /\ bss_api = "DM"
    /\ \E i \in 1..Len(ss.objs), run \in Range(ISRuns),
          answer \in DmProposalAnswers :
        \E c \in {ApsDmScheduleInterface_proposals(deref(ss, i), "9-ID-B,C",
                                                   run, answer)} :
           /\ ss' = store(ss, i, c.self)
           /\ last' = PairLast("proposals", i, "9-ID-B,C", run, c)
    /\ UNCHANGED <<now, listRuns, ctor, bss_api>>

Pair_IS_auth_from_creds ==
    /\ bss_api = "IS"
    /\ \E i \in 1..Len(ss.objs) :
           /\ deref(ss, i).creds = PyNone
           /\ ss' = store(ss, i, auth_from_creds(deref(ss, i), "user", "password"))
           /\ last' = [op |-> "auth_from_creds", seq |-> NextSeq, inst |-> i]
    /\ UNCHANGED <<now, listRuns, ctor, bss_api>>

Pair_IS_proposals ==
    /\ bss_api = "IS"
    /\ \E i \in 1..Len(ss.objs), k \in 1..Len(ISRuns) :
        \E reqAnswer \in RequestAnswers(ISRuns[k], "9-ID-B,C"),
           actAnswer \in ActivityAnswers :
        \E c \in {IS_SchedulingServer_proposals(deref(ss, i), "9-ID-B,C",
                      PyStr(ISRuns[k]), Ok(<<>>), reqAnswer, actAnswer)} :
           /\ ss' = store(ss, i, c.self)
           /\ last' = PairLast("proposals", i, "9-ID-B,C", ISRuns[k], c)
    /\ UNCHANGED <<now, listRuns, ctor, bss_api>>

NoObjects == [heap |-> <<>>, objs |-> <<>>]

InitPair ==
    /\ now = 0
    /\ listRuns = <<>>
    /\ ctor = [creds_file |-> NoFile, construct |-> "ok"]
    /\ bss_api \in {"DM", "IS"}
    /\ ss = IF bss_api = "DM"
            THEN construct(construct(NoObjects, ApsDmScheduleInterface__init__),
                           ApsDmScheduleInterface__init__)
            ELSE construct(construct(NoObjects, IS_SchedulingServer__init__),
                           IS_SchedulingServer__init__)
    /\ last = Idle

NextPair ==
    \/ Pair_DM_beamlines
    \/ Pair_DM_runs
    \/ Pair_DM_proposals
    \/ Pair_IS_auth_from_creds
    \/ Pair_IS_proposals

SpecPair == InitPair /\ [][NextPair]_vars

\* C23: a call on one adapter leaves the other adapter of the pair as it
\* was: its cache, its single slot and everything else it holds.
C23_PerInstance ==
    [][\A j \in 1..Len(ss.objs) :
          j # last'.inst => deref(ss', j) = deref(ss, j)]_vars

\* the adapter that the last call was not made on
Other == 3 - last.inst

\* C23 witnesses: a call for proposals on one adapter goes upstream for a
\* key that the other adapter holds in its cache, with the DM adapter and
\* with the IS adapter.
C23_Witness ==
    /\ bss_api = "DM"
    /\ last.op = "proposals"
    /\ last.requests # <<>>
    /\ <<last.beamline, last.run>> \in DOMAIN deref(ss, Other)._cache.proposals
    /\ deref(ss, Other)._cache.beamlines # <<>>
    /\ deref(ss, last.inst)._cache.beamlines = <<>>

C23_WitnessIS ==
    /\ bss_api = "IS"
    /\ last.op = "proposals"
    /\ last.requests # <<>>
    /\ last.result.exc = "none"
    /\ deref(ss, Other)._beamline = PyStr(last.beamline)
    /\ deref(ss, Other)._run = PyStr(last.run)
    /\ DOMAIN deref(ss, Other)._proposals # DOMAIN deref(ss, last.inst)._proposals

-----------------------------------------------------------------------------
(* The records that IS_SchedulingServer.proposals stores, and their times. *)
(* A beamtime request carries its run, from instant 1 to instant 7; an     *)
(* activity runs from instant 3 to instant 5, or carries None for both.    *)

RunTimed(run) ==
    PyDict([runName |-> PyStr(run), startTime |-> TimeLeaf(4, 1),
            endTime |-> TimeLeaf(4, 7)])

ActivityTimed(gupId, timed) ==
    [gupId |-> gupId, activityId |-> 7,
     startTime |-> TimeLeaf(IF timed THEN 4 ELSE 1, 3),
     endTime |-> TimeLeaf(IF timed THEN 4 ELSE 1, 5)]

\* what the server answers when asked for the activities
ActivityAnswer(shape) ==
    CASE shape = 0 -> Failure("Forbidden", "no access")
      [] shape = 1 -> Ok(<<>>)
      [] shape = 2 -> Ok(<<ActivityTimed(1, TRUE)>>)
      [] shape = 3 -> Ok(<<ActivityTimed(2, TRUE)>>)
      [] shape = 4 -> Ok(<<ActivityTimed(1, FALSE)>>)

\* ... and for the beamtime requests: gupId 1..n, or a refusal
RequestAnswer(run, beamline, n) ==
    IF n < 0 THEN Failure("Forbidden", "no access")
    ELSE Ok([i \in 1..n |-> [gupId |-> i, run |-> RunTimed(run),
                             beamline |-> beamline, activity |-> PyNone]])

Stored_proposals ==
    /\ \E k \in 1..Len(ISRuns), n \in (0 - 1)..MaxEntries, shape \in 0..4 :
        \E c \in {IS_SchedulingServer_proposals(
                      ss, "9-ID-B,C", PyStr(ISRuns[k]), Ok(<<>>),
                      RequestAnswer(ISRuns[k], "9-ID-B,C", n),
                      ActivityAnswer(shape))} :
           /\ ss' = c.self
           /\ last' = [op |-> "proposals", seq |-> NextSeq,
                       run |-> ISRuns[k], entries |-> n,
                       requests |-> c.requests, exc |-> c.exc]
    /\ UNCHANGED <<now, listRuns, ctor, bss_api>>

\* entry as the dict it is: its "activity" key is there once it was set
raw_of(entry) ==
    PyDict([k \in {"run"} \cup (IF entry.activity.t = "dict" THEN {"activity"}
                              ELSE {}) |->
                IF k = "run" THEN entry.run ELSE entry.activity])

\* .startTime or .endTime of a record that is stored
Stored_time ==
    /\ \E gupId \in DOMAIN ss._proposals, which \in {"startTime", "endTime"} :
        last' = [op |-> "time", seq |-> NextSeq, gupId |-> gupId,
                 which |-> which,
                 result |-> Record_time(
                                IS_BeamtimeRequest__init__(
                                    raw_of(ss._proposals[gupId])), which)]
    /\ UNCHANGED <<now, listRuns, ctor, bss_api, ss>>

InitStored ==
    /\ now = 0
    /\ listRuns = <<>>
    /\ ctor = [creds_file |-> NoFile, construct |-> "ok"]
    /\ bss_api = "IS"
    /\ ss = auth_from_creds(IS_SchedulingServer__init__, "user", "password")
    /\ last = Idle

NextStored ==
    \/ Stored_proposals
    \/ Stored_time

SpecStored == InitStored /\ [][NextStored]_vars

\* the activities that the adapter holds for the pair of its slot
SlotActivities == ss._cache[<<"activities", ss._beamline.v, ss._run.v>>]

C24_WitnessRun ==
    /\ DOMAIN ss._proposals = {1, 2}
    /\ DOMAIN SlotActivities = {1}
    /\ last.op = "time" /\ last.gupId = 2 /\ last.which = "endTime"
    /\ last.result.exc = "none"
    /\ last.result.value.local - last.result.value.offset[1] = 7

-----------------------------------------------------------------------------
(* IS_SchedulingServer.get_request.  The server holds, for every run, the  *)
(* beamtime requests gupId 1..n of the beamline, one activity, of gupId 1, *)
(* and names one run as the current one.                                   *)

\* IS_SchedulingServer.get_request(beamline, proposal_id, run=None):
\* self.proposals is called with the beamline only
IS_SchedulingServer_get_request(self, beamline, proposal_id, run, curAnswer, reqAnswer, actAnswer) ==
    Only({IF r.exc # "none" THEN r
          ELSE Only({IF p.exc # "none"
                     THEN ISResult(p.self, r.requests \o p.requests, p)
                     ELSE IF proposal_id \notin DOMAIN p.value
                     THEN ISResult(p.self, r.requests \o p.requests,
                                   Raise("IS_RequestNotFound",
                                         <<beamline, proposal_id, r.value.v>>))
                     ELSE ISResult(p.self, r.requests \o p.requests,
                                   Return(p.value[proposal_id])) :
                     p \in {IS_SchedulingServer_proposals(
                                r.self, beamline, PyNone, curAnswer, reqAnswer,
                                actAnswer)}}) :
          r \in {resolve_run(self, run, curAnswer)}})

\* every call is answered from what the server holds at the time: nreq[r]
\* requests in run r, the current run ISRuns[k]
IS_get_request ==
    /\ \E proposal_id \in 1..(MaxEntries + 1), run \in RunArgsIS,
          k \in 1..Len(ISRuns), nreq \in [Range(ISRuns) -> {0, MaxEntries}] :
        \E c \in {IS_SchedulingServer_get_request(
                      ss, "9-ID-B,C", proposal_id, run,
                      Ok(<<[runName |-> ISRuns[k]]>>),
                      RequestAnswer(ISRuns[k], "9-ID-B,C", nreq[ISRuns[k]]),
                      ActivityAnswer(2))} :
           /\ ss' = c.self
           /\ last' = [op |-> "get_request", seq |-> NextSeq,
                       proposal_id |-> proposal_id, run |-> run,
                       current |-> ISRuns[k], nreq |-> nreq,
                       requests |-> c.requests,
                       result |-> [exc |-> c.exc, msg |-> c.msg,
                                   value |-> c.value]]
    /\ UNCHANGED <<now, listRuns, ctor, bss_api>>

NextRequest ==
    \/ IS_get_request

SpecRequest == InitStored /\ [][NextRequest]_vars

\* the run that the call is for
RunAsked == IF last.run.t = "NoneType" THEN last.current ELSE last.run.v

\* the call is answered as the server holds it: the record of the run asked
\* with that gupId, or the request-not-found error
AsTheServerHolds ==
    IF last.proposal_id <= last.nreq[RunAsked]
    THEN /\ last.result.exc = "none"
         /\ last.result.value.gupId = last.proposal_id
         /\ last.result.value.run.v.runName.v = RunAsked
    ELSE last.result.exc = "IS_RequestNotFound"

\* the call went to the server for the requests and was not refused
Fetched ==
    /\ last.op = "get_request"
    /\ \E i \in 1..Len(last.requests) :
        last.requests[i].path
            = "beamtimeRequests/findBeamtimeRequestsByRunAndBeamline"
    /\ last.result.exc \in {"none", "IS_RequestNotFound"}

\* C25: IS_SchedulingServer.get_request(beamline, proposal_id, run) returns
\* the record with that proposal_id among the proposals of the beamline in
\* the run given (in the current run when none is given), and raises the
\* request-not-found error when the proposals of that beamline and run hold
\* no such ID.
C25_GetRequest == Fetched => AsTheServerHolds

\* ... which holds when no run is given
C25_RunOmitted == (Fetched /\ last.run.t = "NoneType") => AsTheServerHolds

\* ... and does not when the run given is not the current run: the request
\* of the current run is returned
C25_OtherRun ==
    /\ Fetched
    /\ last.run = PyStr("2020-3") /\ last.current = "2021-1"
    /\ last.nreq["2020-3"] = 0 /\ last.nreq["2021-1"] > 0
    /\ last.proposal_id = 1
    /\ last.result.exc = "none"
    /\ last.result.value.run.v.runName.v = "2021-1"

-----------------------------------------------------------------------------
(* The single slot after a call that failed.                               *)

\* the call asked the server for the beamtime requests and was answered
\* with last.entries of them
Answered ==
    /\ last.op = "proposals"
    /\ last.entries >= 0
    /\ \E i \in 1..Len(last.requests) :
        last.requests[i].path
            = "beamtimeRequests/findBeamtimeRequestsByRunAndBeamline"

\* C26: after a call of IS_SchedulingServer.proposals, failed or not,
\* whenever the slot is that of the beamline and run of the call, the
\* stored _proposals holds a record for every entry that the server
\* returned for them; so no later call served from the slot returns an
\* empty or partial set that a failed call left behind.
C26_SlotComplete ==
    (/\ Answered
     /\ ss._beamline = PyStr("9-ID-B,C")
     /\ ss._run = PyStr(last.run)) =>
        DOMAIN ss._proposals = 1..last.entries

\* ... which holds of the calls that did not fail
C26_SlotCompleteAfterSuccess ==
    (Answered /\ last.exc = "none") =>
        /\ ss._beamline = PyStr("9-ID-B,C")
        /\ ss._run = PyStr(last.run)
        /\ DOMAIN ss._proposals = 1..last.entries

\* ... and of the calls that the server refused the requests to: the slot
\* is as it was
C26_MainFetchRefused ==
    [][(last'.op = "proposals" /\ last'.entries < 0 /\ last'.requests # <<>>) =>
            /\ last'.exc # "none"
            /\ ss'._beamline = ss._beamline
            /\ ss'._run = ss._run
            /\ ss'._proposals = ss._proposals]_vars

\* a call served from the slot, without a request, returns no record for a
\* beamline and run that the server had returned requests for: the call
\* before it failed at the activities
C26_ServedEmpty ==
    [][~(/\ Answered /\ last.exc # "none" /\ last.entries > 0
         /\ last'.op = "proposals" /\ last'.run = last.run
         /\ last'.requests = <<>> /\ last'.exc = "none"
         /\ ss'._proposals = EmptyDict)]_vars

-----------------------------------------------------------------------------
(* The DM adapter after a call that failed.                                *)

\* C27: when a call of ApsDmScheduleInterface (beamlines, _runs, runs,
\* proposals) raises, it has sent one request to the DM API and no second
\* one, and the cache is as it was before the call; the next call of the
\* same kind for the same beamline and run sends a request again.
C27_FailureNotCached ==
    [][/\ last'.result.exc # "none" =>
            /\ Len(last'.requests) = 1
            /\ ss' = ss
       /\ (/\ last.op # "idle"
           /\ last.result.exc # "none"
           /\ last'.op = last.op
           /\ last'.beamline = last.beamline
           /\ last'.run = last.run) =>
            Len(last'.requests) = 1]_vars

\* C27 witnesses: a call for proposals fails when the DM API raises, and
\* when the first entry of its listing cannot be made a record of, the
\* cache holding the beamlines and other proposals by then.
C27_Witness ==
    /\ last.op = "proposals"
    /\ last.result.exc = "DmException"
    /\ ss._cache.beamlines # <<>>
    /\ DOMAIN ss._cache.proposals # {}
    /\ <<last.beamline, last.run>> \notin DOMAIN ss._cache.proposals

C27_WitnessPartial ==
    /\ last.op = "proposals"
    /\ last.result.exc = "TypeError"
    /\ DOMAIN ss._cache.proposals # {}
    /\ <<last.beamline, last.run>> \notin DOMAIN ss._cache.proposals

-----------------------------------------------------------------------------
(* The facade while no run is current.                                     *)

\* the arguments of _parse_runs_arg that are resolved by the current run
NeedsCurrentRun(runs) ==
    \/ runs.t = "NoneType"
    \/ /\ runs.t = "str"
       /\ runs.v \in {"", "now", "current", "past", "previous", "prior",
                      "future", "next", "recent"}

\* C28: while no run of the catalog contains now, the current_run of the
\* backend is the empty dict and Server.current_run raises (KeyError); with
\* it fails every call of the facade that needs the current run:
\* recent_runs, current_esafs_and_proposals, _parse_runs_arg with None, "",
\* "now", "current", "previous", "next", "recent" (and their synonyms),
\* esafs, proposal and proposals without a run; esafs asks no listing.
C28_NoCurrentRun ==
    RunsContainingNow = {} =>
        /\ ScheduleInterfaceBase_current_run = EmptyDict
        /\ Server_current_run.exc = "KeyError"
        /\ last.op \in {"recent_runs", "current_esafs_and_proposals"} =>
                last.result.exc = "KeyError"
        /\ (last.op = "_parse_runs_arg" /\ NeedsCurrentRun(last.runs)) =>
                last.result.exc = "KeyError"
        /\ (last.op \in {"esafs", "proposal", "proposals"} /\ Falsy(last.run)) =>
                last.result.exc = "KeyError"
        /\ (last.op = "esafs" /\ Falsy(last.run)) => last.result.asked = <<>>

\* C28 witnesses: the clock is between two runs of the catalog, or past
\* the only one, and a call that needs the current run has failed.
C28_Witness ==
    /\ RunsContainingNow = {}
    /\ Len(listRuns) = 2
    /\ listRuns[1].endTime < now /\ now < listRuns[2].startTime
    /\ last.op = "current_esafs_and_proposals"
    /\ last.result.exc = "KeyError"

C28_WitnessParse ==
    /\ RunsContainingNow = {}
    /\ Len(listRuns) = 1
    /\ last.op = "_parse_runs_arg"
    /\ last.runs.t = "str" /\ last.runs.v = "previous"
    /\ last.result.exc = "KeyError"

-----------------------------------------------------------------------------
(* Proposals and ESAFs that list nobody.                                   *)

\* the ESAFs gathered that list no user
EsafsOfNobody ==
    {eid \in DOMAIN last.result.esafs :
        last.result.esafs[eid].experimentUsers = <<>>}

\* C29: in the mapping of Server.current_esafs_and_proposals a proposal
\* without experimenters is mapped to every ESAF gathered that lists no
\* user, and to no ESAF that lists one or more; it has no key when no ESAF
\* gathered is without users.
C29_NobodyMatchesNobody ==
    (last.op = "current_esafs_and_proposals" /\ last.result.exc = "none") =>
        \A pid \in DOMAIN last.result.proposals :
            last.result.proposals[pid]._users = <<>> =>
                IF EsafsOfNobody = {} THEN pid \notin DOMAIN last.result.value
                ELSE /\ pid \in DOMAIN last.result.value
                     /\ Range(last.result.value[pid]) = EsafsOfNobody

\* C29 witness: of two ESAFs gathered one lists nobody; the proposal
\* without experimenters is mapped to it alone.
C29_Witness ==
    /\ last.op = "current_esafs_and_proposals"
    /\ last.result.exc = "none"
    /\ DOMAIN last.result.esafs = {1, 2}
    /\ EsafsOfNobody = {2}
    /\ 1 \in DOMAIN last.result.proposals
    /\ last.result.proposals[1]._users = <<>>
    /\ last.result.value[1] = <<2>>

-----------------------------------------------------------------------------
(* Server.get_proposal of servers.py.                                      *)

\* the call returns the record of the ID asked when the proposals hold it,
\* and raises ProposalNotFound when they do not
RecordOrNotFound ==
    IF last.number \in last.ids
    THEN /\ last.result.exc = "none"
         /\ last.result.value.v.id = last.number
    ELSE last.result.exc = "ProposalNotFound"

C30_KeyedByString ==
    (last.op = "get_proposal" /\ last.keyed = "str") => RecordOrNotFound

\* proposal 1 is asked, as the integer, of proposals that hold it under the
\* integer key, and is not found
C30_NotFoundThoughHeld ==
    /\ last.op = "get_proposal"
    /\ last.keyed = "int" /\ last.passed = "int"
    /\ last.number = 1 /\ last.ids = {1, 2}
    /\ last.result.exc = "ProposalNotFound"

====
